---- MODULE Spec2Model ----
(***************************************************************************)
(* A model of the runllm program execution engine (runllm/executor.py),    *)
(* its output extraction (runllm/validation.py) and the collaborators it   *)
(* calls.  Texts are sequences of JSON lexemes; JSON objects are functions *)
(* from keys to value kinds.                                               *)
(***************************************************************************)
EXTENDS Integers, Sequences, FiniteSets, TLC

(***************************************************************************)
(* Bounds of the model.                                                    *)
(***************************************************************************)
MaxRetries == 2
MaxUses == 2

(***************************************************************************)
(* JSON values and texts.                                                  *)
(*   lexemes: "{" "}" "[" "]" "," " " (whitespace) "junk" (not JSON)       *)
(*            "1" (a number) and "key:kind" pairs of an object.            *)
(***************************************************************************)
Keys == {"s", "p"}
Kinds == {"str", "num"}
PairToks == {"s:str", "s:num", "p:str"}

PairKey(tok) == IF tok = "p:str" THEN "p" ELSE "s"
PairKind(tok) == IF tok = "s:num" THEN "num" ELSE "str"

EmptyObj == [k \in {} |-> "str"]

\* dict[key] = value (a later duplicate key replaces the earlier one)
SetKey(obj, k, v) == [x \in DOMAIN obj \cup {k} |-> IF x = k THEN v ELSE obj[x]]

\* Update keeping the value a key already has
Update_keepold(obj, other) ==
  [x \in DOMAIN obj \cup DOMAIN other |-> IF x \in DOMAIN obj THEN obj[x] ELSE other[x]]

\* dict.update(other)
Update(obj, other) ==
  [x \in DOMAIN obj \cup DOMAIN other |-> IF x \in DOMAIN other THEN other[x] ELSE obj[x]]

RECURSIVE SkipWs(_, _)
SkipWs(text, i) ==
  IF i <= Len(text) /\ text[i] = " " THEN SkipWs(text, i + 1) ELSE i

NoDecode == [ok |-> FALSE, isObj |-> FALSE, obj |-> EmptyObj, end |-> 0]

\* the members of an object after its opening brace; needPair is TRUE right after a comma
RECURSIVE DecodeMembers(_, _, _, _)
DecodeMembers(text, i, acc, needPair) ==
  LET j == SkipWs(text, i) IN
  IF j > Len(text) THEN NoDecode
  ELSE IF text[j] = "}" /\ ~needPair
    THEN [ok |-> TRUE, isObj |-> TRUE, obj |-> acc, end |-> j]
  ELSE IF text[j] \in PairToks
    THEN LET acc2 == SetKey(acc, PairKey(text[j]), PairKind(text[j]))
             k == SkipWs(text, j + 1)
         IN IF k > Len(text) THEN NoDecode
            ELSE IF text[k] = "}" THEN [ok |-> TRUE, isObj |-> TRUE, obj |-> acc2, end |-> k]
            ELSE IF text[k] = "," THEN DecodeMembers(text, k + 1, acc2, TRUE)
            ELSE NoDecode
  ELSE NoDecode

\* json.JSONDecoder().raw_decode(text[i:]) for text[i] = "{": decodes one object and
\* consumes only what closes it
RawDecodeObject(text, i) ==
  IF i > Len(text) \/ text[i] # "{" THEN NoDecode
  ELSE DecodeMembers(text, i + 1, EmptyObj, FALSE)

\* the elements of an array after its opening bracket (numbers and objects)
RECURSIVE DecodeElements(_, _, _)
DecodeElements(text, i, needElem) ==
  LET j == SkipWs(text, i) IN
  IF j > Len(text) THEN NoDecode
  ELSE IF text[j] = "]" /\ ~needElem
    THEN [ok |-> TRUE, isObj |-> FALSE, obj |-> EmptyObj, end |-> j]
  ELSE LET AfterElement(e) ==
             IF ~e.ok THEN NoDecode
             ELSE LET k == SkipWs(text, e.end + 1) IN
                  IF k > Len(text) THEN NoDecode
                  ELSE IF text[k] = "]"
                    THEN [ok |-> TRUE, isObj |-> FALSE, obj |-> EmptyObj, end |-> k]
                  ELSE IF text[k] = "," THEN DecodeElements(text, k + 1, TRUE)
                  ELSE NoDecode
       IN AfterElement(IF text[j] = "1"
                         THEN [ok |-> TRUE, isObj |-> FALSE, obj |-> EmptyObj, end |-> j]
                         ELSE RawDecodeObject(text, j))

\* str.strip()
RECURSIVE StripLeft(_)
StripLeft(text) ==
  IF text # <<>> /\ Head(text) = " " THEN StripLeft(Tail(text)) ELSE text

RECURSIVE StripRight(_)
StripRight(text) ==
  IF text # <<>> /\ text[Len(text)] = " "
    THEN StripRight(SubSeq(text, 1, Len(text) - 1)) ELSE text

Strip(text) == StripRight(StripLeft(text))

\* json.loads(text): the whole text must be one JSON value
JsonLoads(text) ==
  LET i == SkipWs(text, 1)
      WholeText(v) == IF v.ok /\ SkipWs(text, v.end + 1) > Len(text) THEN v ELSE NoDecode
  IN WholeText(IF i > Len(text) THEN NoDecode
               ELSE IF text[i] = "1"
                 THEN [ok |-> TRUE, isObj |-> FALSE, obj |-> EmptyObj, end |-> i]
               ELSE IF text[i] = "[" THEN DecodeElements(text, i + 1, FALSE)
               ELSE RawDecodeObject(text, i))

(***************************************************************************)
(* Errors (runllm/errors.py) and schema validation (runllm/validation.py). *)
(***************************************************************************)
NoPayload == [form |-> "none", text |-> <<>>, obj |-> EmptyObj]
TextPayload(t) == [form |-> "text", text |-> t, obj |-> EmptyObj]
ValuePayload(t) == [form |-> "value", text |-> t, obj |-> EmptyObj]
ObjPayload(o) == [form |-> "object", text |-> <<>>, obj |-> o]

\* make_error: the fields of ErrorPayload the engine's callers can tell apart
make_error(code, expected, payload, cycle) ==
  [error_code |-> code, expected_schema |-> expected, received_payload |-> payload, cycle |-> cycle]

NoError == make_error("none", "none", NoPayload, <<>>)

\* the schemas of a program: required keys, the kind of each declared property,
\* and additionalProperties
InputSchema == [name |-> "input", required |-> {"s"}, props |-> [s |-> "str"], additional |-> FALSE]
OutputSchema == [name |-> "output", required |-> {"s"}, props |-> [s |-> "str"], additional |-> FALSE]

\* jsonschema.validate(instance, schema) raises no ValidationError
SchemaValid(instance, schema) ==
  /\ schema.required \subseteq DOMAIN instance
  /\ \A k \in DOMAIN instance :
       IF k \in DOMAIN schema.props THEN instance[k] = schema.props[k] ELSE schema.additional

\* validate_json_schema_instance letting every input pass
validate_json_schema_instance_outputonly(instance, schema, phase) ==
  IF phase = "input" \/ SchemaValid(instance, schema) THEN NoError
  ELSE make_error("RLLM_005", schema.name, ObjPayload(instance), <<>>)

\* validate_json_schema_instance: NoError, or the error it raises
validate_json_schema_instance(instance, schema, phase) ==
  IF SchemaValid(instance, schema) THEN NoError
  ELSE make_error(IF phase = "input" THEN "RLLM_004" ELSE "RLLM_005",
                  schema.name, ObjPayload(instance), <<>>)

\* the first index >= i holding "{" from which an object decodes (0 if none)
RECURSIVE FirstDecodable(_, _)
FirstDecodable(text, i) ==
  IF i > Len(text) THEN 0
  ELSE IF text[i] = "{" /\ RawDecodeObject(text, i).ok THEN i
  ELSE FirstDecodable(text, i + 1)

\* parse_model_json_payload: [err |-> NoError, obj |-> the object] or [err |-> raised error]
parse_model_json_payload(text) ==
  LET Parsed(stripped, whole, idx) ==
        IF whole.ok
          THEN IF whole.isObj THEN [err |-> NoError, obj |-> whole.obj]
               ELSE [err |-> make_error("RLLM_007", "none", ValuePayload(stripped), <<>>),
                     obj |-> EmptyObj]
          ELSE IF idx = 0
            THEN [err |-> make_error("RLLM_006", "none", TextPayload(stripped), <<>>),
                  obj |-> EmptyObj]
            ELSE [err |-> NoError, obj |-> RawDecodeObject(stripped, idx).obj]
  IN Parsed(Strip(text), JsonLoads(Strip(text)), FirstDecodable(Strip(text), 1))

\* json.dumps(candidate, sort_keys=True): the members in key order
KeyOrder == <<"p", "s">>
SortedKeySerialization(obj) ==
  LET F[i \in 0..Len(KeyOrder)] ==
        IF i = 0 THEN <<>>
        ELSE IF KeyOrder[i] \in DOMAIN obj
          THEN Append(F[i - 1], <<KeyOrder[i], obj[KeyOrder[i]]>>)
          ELSE F[i - 1]
  IN F[Len(KeyOrder)]

\* the scan appending every object it decodes
RECURSIVE ScanCandidates_nodedup(_, _, _)
ScanCandidates_nodedup(text, i, out) ==
  IF i > Len(text) THEN out
  ELSE IF text[i] # "{" THEN ScanCandidates_nodedup(text, i + 1, out)
  ELSE LET Collect(d) == IF ~d.ok THEN out ELSE Append(out, d.obj)
       IN ScanCandidates_nodedup(text, i + 1, Collect(RawDecodeObject(text, i)))

\* the scan of extract_json_object_candidates from index i on, with the candidates
\* collected so far (their serializations are the set 'seen' of the code)
RECURSIVE ScanCandidates(_, _, _)
ScanCandidates(text, i, out) ==
  IF i > Len(text) THEN out
  ELSE IF text[i] # "{" THEN ScanCandidates(text, i + 1, out)
  ELSE LET Collect(d) ==
             IF ~d.ok THEN out
             ELSE IF \E n \in 1..Len(out) :
                       SortedKeySerialization(out[n]) = SortedKeySerialization(d.obj)
               THEN out
               ELSE Append(out, d.obj)
       IN ScanCandidates(text, i + 1, Collect(RawDecodeObject(text, i)))

extract_json_object_candidates(text) ==
  LET Candidates(out, only) ==
        IF out # <<>> THEN out
        ELSE IF only.err = NoError THEN <<only.obj>> ELSE <<>>
  IN Candidates(ScanCandidates(Strip(text), 1, <<>>), parse_model_json_payload(Strip(text)))

(***************************************************************************)
(* The pure parts of runllm/executor.py, runllm/utils.py and the outcome   *)
(* of runllm/pyblocks.py.                                                  *)
(***************************************************************************)

\* FirstValid taking the first candidate without validating it
FirstValid_unchecked(candidates, schema, i) ==
  IF i > Len(candidates) THEN 0 ELSE i

\* the index of the last candidate from index i on that validates (0 if none)
RECURSIVE FirstValid_latest(_, _, _)
FirstValid_latest(candidates, schema, i) ==
  IF i > Len(candidates) THEN 0
  ELSE IF FirstValid_latest(candidates, schema, i + 1) # 0
    THEN FirstValid_latest(candidates, schema, i + 1)
  ELSE IF SchemaValid(candidates[i], schema) THEN i
  ELSE 0

\* the index of the first candidate from index i on that validates (0 if none)
RECURSIVE FirstValid(_, _, _)
FirstValid(candidates, schema, i) ==
  IF i > Len(candidates) THEN 0
  ELSE IF validate_json_schema_instance(candidates[i], schema, "output") = NoError THEN i
  ELSE FirstValid(candidates, schema, i + 1)

\* DirectPath without the validation of the parsed object
DirectPath_unvalidated(content, schema) ==
  LET Direct(parsed) ==
        IF parsed.err # NoError THEN [err |-> parsed.err, obj |-> EmptyObj]
        ELSE [err |-> NoError, obj |-> parsed.obj]
  IN Direct(parse_model_json_payload(content))

\* the direct parser path: parse_model_json_payload followed by validation
DirectPath(content, schema) ==
  LET Validated(parsed, verr) ==
        IF verr # NoError THEN [err |-> verr, obj |-> EmptyObj]
        ELSE [err |-> NoError, obj |-> parsed.obj]
      Direct(parsed) ==
        IF parsed.err # NoError THEN [err |-> parsed.err, obj |-> EmptyObj]
        ELSE Validated(parsed, validate_json_schema_instance(parsed.obj, schema, "output"))
  IN Direct(parse_model_json_payload(content))

\* the output of one attempt: the object 'out' of _run_single, or the error raised
ExtractOutput(content, schema) ==
  LET Chosen(candidates, n) ==
        IF candidates # <<>> /\ n # 0 THEN [err |-> NoError, obj |-> candidates[n]]
        ELSE DirectPath(content, schema)
      Extracted(candidates) == Chosen(candidates, FirstValid(candidates, schema, 1))
  IN Extracted(extract_json_object_candidates(content))

\* _build_attempt_prompt leaving the recovery instruction out
_build_attempt_prompt_norecovery(recovery_prompt, attempt) ==
  <<"rendered_prompt", "contract">>

\* _build_attempt_prompt: the parts of the prompt of an attempt
_build_attempt_prompt(recovery_prompt, attempt) ==
  IF attempt = 0 THEN <<"rendered_prompt", "contract">>
  ELSE IF recovery_prompt # "" THEN <<"rendered_prompt", "contract", recovery_prompt>>
  ELSE <<"rendered_prompt", "contract", "default_recovery">>

\* len() of a prompt part (a rendered prompt of 40 characters, the contract of
\* OutputSchema, the recovery instruction with the default text or with a custom
\* text of 18 characters) and of a prompt, whose parts are joined by two newlines
PartChars(part) ==
  CASE part = "rendered_prompt" -> 40
    [] part = "contract" -> 313
    [] part = "default_recovery" -> 133
    [] OTHER -> 40

RECURSIVE PromptChars(_)
PromptChars(prompt) ==
  IF prompt = <<>> THEN 0
  ELSE PartChars(Head(prompt)) + (IF Len(prompt) > 1 THEN 2 ELSE 0) + PromptChars(Tail(prompt))

\* len(json.dumps(payload, separators=(",", ":"))) for string values of 3 characters
RECURSIVE MembersChars(_, _)
MembersChars(obj, ks) ==
  IF ks = {} THEN 0
  ELSE LET k == CHOOSE x \in ks : TRUE IN
       4 + (IF obj[k] = "str" THEN 5 ELSE 1) + MembersChars(obj, ks \ {k})

PayloadChars(obj) ==
  2 + MembersChars(obj, DOMAIN obj)
    + (IF Cardinality(DOMAIN obj) > 1 THEN Cardinality(DOMAIN obj) - 1 ELSE 0)

\* estimate_tokens applied to a text of the given length
estimate_tokens(chars) == IF chars \div 4 < 1 THEN 1 ELSE chars \div 4

estimate_context_tokens(payload, prompt) ==
  estimate_tokens(PayloadChars(payload)) + estimate_tokens(PromptChars(prompt))

\* _validate_context rejecting an estimate equal to the window
_validate_context_inclusive(max_context_window, payload, prompt) ==
  IF estimate_context_tokens(payload, prompt) >= max_context_window
    THEN make_error("RLLM_012", "none", NoPayload, <<>>)
    ELSE NoError

\* _validate_context: NoError, or the error it raises
_validate_context(max_context_window, payload, prompt) ==
  IF estimate_context_tokens(payload, prompt) > max_context_window
    THEN make_error("RLLM_012", "none", NoPayload, <<>>)
    ELSE NoError

\* what a script block does when executed
Scripts == {"untouched", "map_p", "map_s_num", "non_mapping", "raises"}

\* what a pre block does when executed: the same, or it returns a mapping with the
\* key 'input'
PreScripts == Scripts \cup {"map_input"}

\* execute_python_block: the mapping returned, or the error raised
execute_python_block(script) ==
  CASE script = "untouched" -> [err |-> NoError, result |-> EmptyObj]
    [] script = "map_p" -> [err |-> NoError, result |-> [p |-> "str"]]
    [] script = "map_s_num" -> [err |-> NoError, result |-> [s |-> "num"]]
    [] script = "map_input" -> [err |-> NoError, result |-> [input |-> [s |-> "num"]]]
    [] script = "non_mapping" ->
         [err |-> make_error("RLLM_009", "none", ValuePayload(<<"1">>), <<>>), result |-> EmptyObj]
    [] OTHER ->
         [err |-> make_error("RLLM_009", "none", NoPayload, <<>>), result |-> EmptyObj]

\* what completion_fn may answer: a message text, a content that is no string, or a
\* response of another shape
ModelTexts ==
  { <<"{", "s:str", "}">>,
    <<"junk">>,
    <<" ", "junk", "junk", " ">>,
    <<"1">>,
    <<"{", "s:num", "}">>,
    <<"junk", "{", "s:num", ",", "p:str", "}">>,
    <<"{", "s:num", "}", " ", "{", "s:str", "}">>,
    <<"[", "{", "s:num", "}", "]">> }

Responses ==
  [shape : {"ok"}, content : ModelTexts]
    \cup {[shape |-> "non_string", content |-> <<>>], [shape |-> "malformed", content |-> <<>>]}

\* _extract_content: NoError, or the error it raises
_extract_content(response) ==
  IF response.shape = "ok" THEN NoError
  ELSE make_error("RLLM_011", "none", NoPayload, <<>>)

(***************************************************************************)
(* The engine: run_program, _run_program_path, _run_single, _execute_uses. *)
(***************************************************************************)
Paths == {"A", "B", "C"}

\* the program run_program is called on (the paths are interchangeable)
RootPaths == {"A"}
DepNames == <<"d1", "d2", "d3", "d4">>

\* the uses lists a program file may declare (paths in declaration order; the binding
\* name of the i-th entry is DepNames[i])
UsesLists == UNION {[1..n -> Paths] : n \in 0..MaxUses}

Unread == [exists |-> FALSE, uses |-> <<"unread">>]
FileContents == {[exists |-> FALSE, uses |-> <<>>]} \cup [exists : {TRUE}, uses : UsesLists]

\* the dotted names a 'with' template may hold between {{ and }}: the parent's input,
\* a key of the output bound under the name of the first or of the second entry
WithRefs ==
  {<<"input", "s">>, <<"uses", "d1", "s">>, <<"uses", "d1", "p">>, <<"uses", "d2", "s">>}

\* the 'with' map of a uses entry: a template string for key s, a literal number
\* for key s, or no entry at all
WithMaps ==
  [form : {"template"}, ref : WithRefs]
    \cup {[form |-> "literal", ref |-> <<>>], [form |-> "empty", ref |-> <<>>]}

\* max_context_window values of a program, and its recovery prompt
\* (the estimate of a valid input with the first prompt is 2 + 88 = 90 tokens: a window
\* one below it, a window equal to it, and a window no prompt of a retry exceeds)
Windows == {89, 90, 8000}
RecoveryPrompts == {"", "custom_recovery"}

Inputs == {[s |-> "str"], [s |-> "num"]}

\* _resolve_path(data, dotted) for data = {"input": ..., "uses": ...}: the value kind
\* found, or "" where a part of the name is no key
_resolve_path(data, dotted) ==
  IF dotted[1] = "input"
    THEN IF dotted[2] \in DOMAIN data.input THEN data.input[dotted[2]] ELSE ""
  ELSE IF dotted[1] = "uses" /\ dotted[2] \in DOMAIN data.uses
    THEN IF dotted[3] \in DOMAIN data.uses[dotted[2]] THEN data.uses[dotted[2]][dotted[3]] ELSE ""
  ELSE ""

\* render_template of a template holding one token: str(value) of what the name
\* resolves to ("abc" for a string, "1" for a number), the empty string for ""
render_template(ref, data) ==
  LET Text(value) == IF value = "str" THEN "abc" ELSE IF value = "num" THEN "1" ELSE ""
  IN Text(_resolve_path(data, ref))

VARIABLES
  files,      \* what parse_rllm_file has read at each path (fixed once read)
  options,    \* the RunOptions of the run
  frames,     \* the active invocations of _run_single, root first
  raising,    \* the exception travelling up the call chain (NoError if none)
  outcome,    \* what run_program gave its caller
  stats,      \* the rows StatsStore.record_run has inserted
  bound,      \* the render_template call the last step made for a 'with' map (NoRender if none)
  done,       \* the node invocation the last step ended (NoDone if it ended none)
  pb,         \* one call of execute_python_block, step by step (runllm/pyblocks.py)
  fn,         \* one application of a function of runllm/validation.py to a text
  rc          \* the process environment and the module state of runllm/config.py

vars == <<files, options, frames, raising, outcome, stats, bound, done, pb, fn, rc>>

EmptyOutputs == [n \in {} |-> EmptyObj]

\* _run_single line 338: context = {"input": input_payload, "uses": dep_outputs}; the
\* values of the mapping are the engine's own objects, named here
EngineContext == [input |-> "input_payload", uses |-> "dep_outputs"]

\* environment variables the configuration files can give, and their values
EnvKeys == {"OPENAI_API_KEY", "OLLAMA_API_BASE"}
EnvValues == {"a", "b"}
\* a mapping of variables to values; "unset" for a key the mapping does not hold
EnvMaps == [EnvKeys -> EnvValues \cup {"unset"}]
NoEnv == [k \in EnvKeys |-> "unset"]

\* runllm/config.py before any load, in a process without the variables
NoConfig ==
  [environ |-> NoEnv, _AUTOLOADED_ENV_VALUES |-> NoEnv, _RUNTIME_CONFIG_KEY |-> "None",
   yaml_env |-> NoEnv, user_env |-> NoEnv, cwd_env |-> NoEnv,
   by |-> [k \in EnvKeys |-> "process"], op |-> "none"]

\* no function is being applied
NoApplication ==
  [op |-> "none", text |-> <<>>, candidates |-> <<>>, schema |-> "none", post |-> "absent",
   err |-> "none", out |-> <<>>, returned |-> FALSE, value |-> <<>>]

\* no call of execute_python_block is being followed
NoCall ==
  [pc |-> "none", trusted |-> FALSE, memory_limit_mb |-> 0, threads |-> 1, script |-> "untouched",
   getrlimit_ok |-> TRUE, setrlimit_ok |-> TRUE,
   soft |-> -1, hard |-> -1, prior_soft |-> -1, prior_hard |-> -1,
   original_soft |-> 0, original_hard |-> 0, target_soft |-> 0,
   guarded |-> FALSE, lowered |-> FALSE, armed |-> FALSE, fired |-> FALSE,
   sigalrm |-> "original",
   exc |-> "none", result |-> "unset", outcome |-> "none",
   input_payload |-> EmptyObj, dep_outputs |-> EmptyOutputs, context |-> EngineContext]

NoRender ==
  [dep |-> 0, ref |-> <<>>, data |-> [input |-> EmptyObj, uses |-> EmptyOutputs], text |-> ""]

NoOptions == [max_retries |-> 0, debug_prompt_wrap |-> 0]
NoOutcome == [status |-> "idle", value |-> EmptyObj, error |-> NoError]

NewFrame(path, input, stack) ==
  [path |-> path, stack |-> stack, input |-> input, pc |-> "entry", uses |-> <<>>,
   dep |-> 1, outputs |-> EmptyOutputs, pre_ran |-> FALSE, extra |-> EmptyObj,
   rendered |-> FALSE,
   window |-> 0, recovery_prompt |-> "", attempt |-> 0, last_err |-> NoError,
   calls |-> 0, fails |-> 0, prompt |-> <<>>, content |-> <<>>, out |-> EmptyObj,
   post |-> "absent"]

\* how a node invocation ended: its frame (without the locals nothing reads once
\* the invocation is over), its depth in the chain, and what it gave
Ended(f, depth, returned, value, err) ==
  [frame |-> [f EXCEPT !.stack = <<>>, !.input = EmptyObj, !.outputs = EmptyOutputs,
                       !.window = 0, !.recovery_prompt = "", !.last_err = NoError],
   depth |-> depth, returned |-> returned, value |-> value, error |-> err]

NoDone == Ended(NewFrame("", EmptyObj, <<>>), 0, FALSE, EmptyObj, NoError)

Top == frames[Len(frames)]
Front(s) == SubSeq(s, 1, Len(s) - 1)
SetTop(f) == [frames EXCEPT ![Len(frames)] = f]

Running == outcome.status = "running" /\ raising = NoError /\ frames # <<>>

\* the step ends no node invocation and raises nothing
Continue == raising' = raising /\ outcome' = outcome /\ done' = NoDone

\* an exception leaves the frame f on top of the chain
RaiseFrom(f, err) ==
  /\ frames' = Front(frames)
  /\ done' = Ended(f, Len(frames), FALSE, EmptyObj, err)
  /\ IF Len(frames) = 1
       THEN /\ outcome' = [status |-> "failed", value |-> EmptyObj, error |-> err]
            /\ raising' = NoError
       ELSE /\ raising' = err
            /\ UNCHANGED outcome

\* BindOutput stepping over the next uses entry
BindOutput_skip(parent, child_output) ==
  LET name == DepNames[parent.dep] IN
  [parent EXCEPT !.outputs = [n \in DOMAIN parent.outputs \cup {name} |->
                                IF n = name THEN child_output ELSE parent.outputs[n]],
                 !.dep = IF @ + 2 <= Len(parent.uses) + 1 THEN @ + 2 ELSE @ + 1,
                 !.pc = "uses"]

\* outputs[dep.name] = child_output, and the loop of _execute_uses moves on
BindOutput(parent, child_output) ==
  LET name == DepNames[parent.dep] IN
  [parent EXCEPT !.outputs = [n \in DOMAIN parent.outputs \cup {name} |->
                                IF n = name THEN child_output ELSE parent.outputs[n]],
                 !.dep = @ + 1,
                 !.pc = "uses"]

\* the frame f on top of the chain returns value: to the caller of run_program, or to
\* _execute_uses of the parent
ReturnFrom(f, value) ==
  /\ done' = Ended(f, Len(frames), TRUE, value, NoError)
  /\ raising' = raising
  /\ IF Len(frames) = 1
       THEN /\ frames' = <<>>
            /\ outcome' = [status |-> "returned", value |-> value, error |-> NoError]
       ELSE /\ frames' = [Front(frames) EXCEPT ![Len(frames) - 1] =
                            BindOutput(frames[Len(frames) - 1], value)]
            /\ UNCHANGED outcome

\* record_run inserting no row
record_run_dropped(path, success, output_schema_ok, input_schema_ok) == stats

\* record_run binding the two schema flags to each other's column
record_run_crossed(path, success, output_schema_ok, input_schema_ok) ==
  Append(stats, [app_path |-> path, success |-> success,
                 output_schema_ok |-> input_schema_ok, input_schema_ok |-> output_schema_ok])

record_run(path, success, output_schema_ok, input_schema_ok) ==
  Append(stats, [app_path |-> path, success |-> success,
                 output_schema_ok |-> output_schema_ok, input_schema_ok |-> input_schema_ok])

Init ==
  /\ files = [p \in Paths |-> Unread]
  /\ options = NoOptions
  /\ frames = <<>>
  /\ raising = NoError
  /\ outcome = NoOutcome
  /\ stats = <<>>
  /\ bound = NoRender
  /\ done = NoDone
  /\ pb = NoCall
  /\ fn = NoApplication
  /\ rc = NoConfig

\* run_program(program_path, input_payload, options): calls _run_program_path with an
\* empty stack
run_program ==
  /\ outcome.status = "idle"
  /\ \E path \in RootPaths, input \in Inputs, mr \in (-1)..MaxRetries, wrap \in {0, 100} :
       /\ options' = [max_retries |-> mr, debug_prompt_wrap |-> wrap]
       /\ frames' = <<NewFrame(path, input, <<>>)>>
  /\ outcome' = [outcome EXCEPT !.status = "running"]
  /\ UNCHANGED <<files, raising, stats, bound, done, pb, fn, rc>>

\* the head of _run_single validating the input before it checks the options
Enter_inputfirst ==
  /\ Running /\ Top.pc = "entry"
  /\ \E content \in FileContents :
       /\ files[Top.path] \in {Unread, content}
       /\ files' = [files EXCEPT ![Top.path] = content]
       /\ LET verr == validate_json_schema_instance(Top.input, InputSchema, "input")
              f == [Top EXCEPT !.uses = content.uses, !.pc = "uses"]
          IN IF ~content.exists
               THEN RaiseFrom(Top, make_error("RLLM_001", "none", NoPayload, <<>>))
             ELSE IF verr # NoError
               THEN RaiseFrom(f, verr)
             ELSE IF options.max_retries < 0 \/ options.debug_prompt_wrap <= 0
               THEN RaiseFrom(f, make_error("RLLM_002", "none", NoPayload, <<>>))
             ELSE /\ frames' = SetTop(f)
                  /\ Continue
  /\ bound' = NoRender
  /\ UNCHANGED <<options, stats, pb, fn, rc>>

\* _run_program_path and the head of _run_single: parse the file, check the options,
\* validate the input
Enter ==
  /\ Running /\ Top.pc = "entry"
  /\ \E content \in FileContents :
       /\ files[Top.path] \in {Unread, content}
       /\ files' = [files EXCEPT ![Top.path] = content]
       /\ LET verr == validate_json_schema_instance(Top.input, InputSchema, "input")
              f == [Top EXCEPT !.uses = content.uses, !.pc = "uses"]
          IN IF ~content.exists
               THEN RaiseFrom(Top, make_error("RLLM_001", "none", NoPayload, <<>>))
             ELSE IF options.max_retries < 0 \/ options.debug_prompt_wrap <= 0
               THEN RaiseFrom(f, make_error("RLLM_002", "none", NoPayload, <<>>))
             ELSE IF verr # NoError
               THEN RaiseFrom(f, verr)
             ELSE /\ frames' = SetTop(f)
                  /\ Continue
  /\ bound' = NoRender
  /\ UNCHANGED <<options, stats, pb, fn, rc>>

\* the child input _execute_uses builds from a 'with' map: a rendered template is a
\* string whatever it rendered, a literal stays the number it is
ChildInput(with, text) ==
  CASE with.form = "template" -> [s |-> "str"]
    [] with.form = "literal" -> [s |-> "num"]
    [] OTHER -> EmptyObj

\* WithData rendering against the input alone
WithData_inputonly(f) == [input |-> f.input, uses |-> EmptyOutputs]

\* {"input": input_payload, "uses": outputs}, the data the 'with' templates of the
\* next entry are rendered against
WithData(f) == [input |-> f.input, uses |-> f.outputs]

\* the render_template call made for the 'with' map of entry f.dep (NoRender for a map
\* without a template)
RenderWith(f, with) ==
  IF with.form = "template"
    THEN [dep |-> f.dep, ref |-> with.ref, data |-> WithData(f),
          text |-> render_template(with.ref, WithData(f))]
    ELSE NoRender

\* dep_path in stack
InStack(dep_path, stack) == \E i \in 1..Len(stack) : stack[i] = dep_path

\* details={"cycle": list(stack) + [dep_path]}
CycleDetail(stack, dep_path) == Append(stack, dep_path)

\* the stack handed to a dependency without the path of the running program
ChildStack_unchanged(stack, path) == stack

\* stack + (str(program.path),)
ChildStack(stack, path) == Append(stack, path)

\* _execute_uses taking the output of an earlier entry with the same path
ExecuteUses_cached ==
  /\ Running /\ Top.pc = "uses"
  /\ IF Top.dep > Len(Top.uses)
       THEN /\ frames' = SetTop([Top EXCEPT !.pc = "pre"])
            /\ bound' = NoRender
            /\ Continue
       ELSE LET dep_path == Top.uses[Top.dep] IN
            IF InStack(dep_path, Top.stack)
              THEN /\ RaiseFrom(Top, make_error("RLLM_008", "none", NoPayload,
                                                CycleDetail(Top.stack, dep_path)))
                   /\ bound' = NoRender
            ELSE IF \E k \in 1..(Top.dep - 1) : Top.uses[k] = dep_path
              THEN /\ frames' = SetTop([BindOutput(Top,
                          Top.outputs[DepNames[CHOOSE k \in 1..(Top.dep - 1) :
                                                 Top.uses[k] = dep_path]])
                        EXCEPT !.pc = "uses"])
                   /\ bound' = NoRender
                   /\ Continue
              ELSE /\ \E with \in WithMaps :
                        /\ bound' = RenderWith(Top, with)
                        /\ frames' = Append(SetTop([Top EXCEPT !.pc = "call"]),
                                            NewFrame(dep_path, ChildInput(with, bound'.text),
                                                     ChildStack(Top.stack, Top.path)))
                   /\ Continue
  /\ UNCHANGED <<files, options, stats, pb, fn, rc>>

\* one iteration of the loop of _execute_uses: the cycle check, the child input, the
\* call of _run_program_path; after the last entry, _execute_uses returns
ExecuteUses ==
  /\ Running /\ Top.pc = "uses"
  /\ IF Top.dep > Len(Top.uses)
       THEN /\ frames' = SetTop([Top EXCEPT !.pc = "pre"])
            /\ bound' = NoRender
            /\ Continue
       ELSE LET dep_path == Top.uses[Top.dep] IN
            IF InStack(dep_path, Top.stack)
              THEN /\ RaiseFrom(Top, make_error("RLLM_008", "none", NoPayload,
                                                CycleDetail(Top.stack, dep_path)))
                   /\ bound' = NoRender
              ELSE /\ \E with \in WithMaps :
                        /\ bound' = RenderWith(Top, with)
                        /\ frames' = Append(SetTop([Top EXCEPT !.pc = "call"]),
                                            NewFrame(dep_path, ChildInput(with, bound'.text),
                                                     ChildStack(Top.stack, Top.path)))
                   /\ Continue
  /\ UNCHANGED <<files, options, stats, pb, fn, rc>>

\* Propagate with a handler around the call that binds an empty output and goes on
Propagate_swallow ==
  /\ outcome.status = "running" /\ raising # NoError /\ frames # <<>>
  /\ frames' = SetTop([Top EXCEPT !.dep = @ + 1, !.pc = "uses"])
  /\ raising' = NoError
  /\ outcome' = outcome
  /\ done' = NoDone
  /\ bound' = NoRender
  /\ UNCHANGED <<files, options, stats, pb, fn, rc>>

\* an exception raised below passes through _execute_uses and _run_single of the
\* calling frame, which have no handler around the call
Propagate ==
  /\ outcome.status = "running" /\ raising # NoError /\ frames # <<>>
  /\ RaiseFrom(Top, raising)
  /\ bound' = NoRender
  /\ UNCHANGED <<files, options, stats, pb, fn, rc>>

\* the pre block of _run_single writing its mapping into the input payload as well
PreScript_updatesinput ==
  /\ Running /\ Top.pc = "pre"
  /\ \/ /\ frames' = SetTop([Top EXCEPT !.pc = "render"])
        /\ Continue
     \/ \E script \in PreScripts :
          LET pre == execute_python_block(script) IN
          IF pre.err # NoError THEN RaiseFrom(Top, pre.err)
          ELSE /\ frames' = SetTop([Top EXCEPT !.pc = "render", !.pre_ran = TRUE,
                                               !.extra = pre.result,
                                               !.input = Update(@, pre.result)])
               /\ Continue
  /\ bound' = NoRender
  /\ UNCHANGED <<files, options, stats, pb, fn, rc>>

\* the pre block of _run_single, if the program has one
PreScript ==
  /\ Running /\ Top.pc = "pre"
  /\ \/ /\ frames' = SetTop([Top EXCEPT !.pc = "render"])
        /\ Continue
     \/ \E script \in PreScripts :
          LET pre == execute_python_block(script) IN
          IF pre.err # NoError THEN RaiseFrom(Top, pre.err)
          ELSE /\ frames' = SetTop([Top EXCEPT !.pc = "render", !.pre_ran = TRUE,
                                               !.extra = pre.result])
               /\ Continue
  /\ bound' = NoRender
  /\ UNCHANGED <<files, options, stats, pb, fn, rc>>

\* context = {"input": input_payload, "uses": dep_outputs} after context.update(pre):
\* what the prompt of the invocation f is rendered against
RenderContext(f) == Update([input |-> f.input, uses |-> f.outputs], f.extra)

\* render_template of the prompt (the last reader of the context the pre block
\* extended), _prepare_model and _ensure_provider_credentials
RenderAndPrepare ==
  /\ Running /\ Top.pc = "render"
  /\ \/ \E w \in Windows, rp \in RecoveryPrompts :
          /\ frames' = SetTop([Top EXCEPT !.pc = "attempt", !.rendered = TRUE, !.extra = EmptyObj,
                                          !.window = w, !.recovery_prompt = rp])
          /\ Continue
     \/ RaiseFrom([Top EXCEPT !.rendered = TRUE],
                  make_error("RLLM_014", "none", NoPayload, <<>>))
  /\ bound' = NoRender
  /\ UNCHANGED <<files, options, stats, pb, fn, rc>>

\* IsRetryable counting the script error as retryable
IsRetryable_script(exc) ==
  exc.error_code \in {"RLLM_005", "RLLM_006", "RLLM_007", "RLLM_009"}

\* exc.payload.error_code in {"RLLM_005", "RLLM_006", "RLLM_007"}
IsRetryable(exc) == exc.error_code \in {"RLLM_005", "RLLM_006", "RLLM_007"}

\* LoopContinues running one attempt too many
LoopContinues_inclusive(attempt, max_retries) == attempt + 1 <= max_retries + 1

\* for attempt in range(max_attempts): is there an iteration after this one
LoopContinues(attempt, max_retries) == attempt + 1 < max_retries + 1

\* ExceptRunLLMError remembering the first failure instead of the last
ExceptRunLLMError_keepfirst(f, exc) ==
  IF IsRetryable(exc)
    THEN /\ frames' = SetTop([f EXCEPT
              !.last_err = IF @ = NoError THEN exc ELSE @,
              !.fails = @ + 1, !.attempt = @ + 1,
              !.pc = IF LoopContinues(f.attempt, options.max_retries)
                       THEN "attempt" ELSE "exhausted"])
         /\ Continue
         /\ UNCHANGED stats
    ELSE /\ stats' = record_run(f.path, FALSE, FALSE, TRUE)
         /\ RaiseFrom(f, exc)

\* ExceptRunLLMError recording a failed run for a retried attempt as well
ExceptRunLLMError_recordeach(f, exc) ==
  /\ stats' = record_run(f.path, FALSE, FALSE, TRUE)
  /\ IF IsRetryable(exc)
       THEN /\ frames' = SetTop([f EXCEPT
                 !.last_err = exc, !.fails = @ + 1, !.attempt = @ + 1,
                 !.pc = IF LoopContinues(f.attempt, options.max_retries)
                          THEN "attempt" ELSE "exhausted"])
            /\ Continue
       ELSE RaiseFrom(f, exc)

\* the handler 'except RunLLMError as exc' of the attempt loop, entered from frame f
ExceptRunLLMError(f, exc) ==
  IF IsRetryable(exc)
    THEN /\ frames' = SetTop([f EXCEPT
              !.last_err = exc, !.fails = @ + 1, !.attempt = @ + 1,
              !.pc = IF LoopContinues(f.attempt, options.max_retries)
                       THEN "attempt" ELSE "exhausted"])
         /\ Continue
         /\ UNCHANGED stats
    ELSE /\ stats' = record_run(f.path, FALSE, FALSE, TRUE)
         /\ RaiseFrom(f, exc)

\* one iteration of the attempt loop of _run_single
Attempt ==
  /\ Running /\ Top.pc = "attempt"
  /\ LET prompt == _build_attempt_prompt(Top.recovery_prompt, Top.attempt)
         cerr == _validate_context(Top.window, Top.input, prompt)
     IN IF cerr # NoError
          THEN RaiseFrom(Top, cerr) /\ UNCHANGED stats
          ELSE \E response \in Responses :
               \E ex \in {ExtractOutput(response.content, OutputSchema)} :
                 LET called == [Top EXCEPT !.calls = @ + 1, !.prompt = prompt,
                                           !.content = response.content]
                     shape == _extract_content(response)
                     valid == [called EXCEPT !.out = ex.obj]
                 IN IF shape # NoError
                      THEN RaiseFrom(called, shape) /\ UNCHANGED stats
                    ELSE IF ex.err # NoError
                      THEN ExceptRunLLMError(called, ex.err)
                    ELSE \/ /\ ReturnFrom(valid, ex.obj)
                            /\ stats' = record_run(Top.path, TRUE, TRUE, TRUE)
                         \/ \E script \in Scripts :
                              LET post == execute_python_block(script)
                                  ran == [valid EXCEPT !.post = script]
                              IN IF post.err # NoError
                                   THEN ExceptRunLLMError(ran, post.err)
                                   ELSE /\ ReturnFrom(ran, Update(ex.obj, post.result))
                                        /\ stats' = record_run(Top.path, TRUE, TRUE, TRUE)
  /\ bound' = NoRender
  /\ UNCHANGED <<files, options, pb, fn, rc>>

\* received_payload=last_err.payload.received_payload
ExhaustedPayload(last_err) == last_err.received_payload

\* the end of _run_single after the loop has run out of attempts
RetryExhausted ==
  /\ Running /\ Top.pc = "exhausted"
  /\ stats' = record_run(Top.path, FALSE, FALSE, TRUE)
  /\ RaiseFrom(Top, make_error("RLLM_013", OutputSchema.name,
                               ExhaustedPayload(Top.last_err), <<>>))
  /\ bound' = NoRender
  /\ UNCHANGED <<files, options, pb, fn, rc>>

Next ==
  \/ run_program
  \/ Enter
  \/ ExecuteUses
  \/ Propagate
  \/ PreScript
  \/ RenderAndPrepare
  \/ Attempt
  \/ RetryExhausted

Spec == Init /\ [][Next]_vars

(***************************************************************************)
(* execute_python_block, step by step (runllm/pyblocks.py).  One call is   *)
(* followed through _timeout, _memory_limit, exec and the exit of the      *)
(* ExitStack.  The address-space limit is counted in bytes, -1 is          *)
(* RLIM_INFINITY.  SIGALRM may be delivered at any step between            *)
(* signal.alarm(seconds) and signal.alarm(0); its handler raises           *)
(* TimeoutError at the statement the main thread is executing.             *)
(***************************************************************************)
MemoryLimits == {0, 256}
MiB == 1024 * 1024
ThreadCounts == {1, 2}
\* (soft, hard) limits of the process when the call starts: soft <= hard
ProcessLimits ==
  {<<-1, -1>>, <<128 * MiB, -1>>, <<512 * MiB, -1>>, <<512 * MiB, 512 * MiB>>,
   <<128 * MiB, 512 * MiB>>}
\* what the block does: the engine's scripts, one that runs past the timeout, one
\* that imports a module, one that raises SystemExit, and one that runs past the
\* timeout inside a try statement with a bare except clause; and three that write to
\* context: context["input"] = {...}, context["input"]["s"] = 1 and
\* context["uses"]["d1"] = {}
BlockScripts ==
  Scripts \cup {"loops", "imports", "exits", "catches",
                "sets_key", "mutates_input", "mutates_uses"}

\* the scripts that do not end by themselves
Endless == {"loops", "catches"}

\* lines 115-118: the names a script finds besides SAFE_BUILTINS
HostBuiltins(trusted) == IF trusted THEN {"__import__", "SystemExit"} ELSE {}

\* line 126: what exec leaves in local_ns["result"], and the exception it raises.  A
\* name outside the builtins of the tier is a NameError or ImportError; SystemExit
\* is no Exception.
ScriptEnds(script, trusted) ==
  CASE script = "raises" -> [result |-> "unset", exc |-> "Exception"]
    [] script = "imports" /\ "__import__" \notin HostBuiltins(trusted) ->
         [result |-> "unset", exc |-> "Exception"]
    [] script = "exits" ->
         [result |-> "unset",
          exc |-> IF "SystemExit" \in HostBuiltins(trusted) THEN "SystemExit"
                  ELSE "Exception"]
    [] script = "untouched" -> [result |-> "empty", exc |-> "none"]
    [] script = "non_mapping" -> [result |-> "non_mapping", exc |-> "none"]
    [] OTHER -> [result |-> "mapping", exc |-> "none"]

is_infinite(value) == value = -1

Min(a, b) == IF a <= b THEN a ELSE b

\* line 62
bytes_limit(memory_limit_mb) == memory_limit_mb * 1024 * 1024

\* the requested ceiling whatever the limits in force
target_soft_requested(requested, original_soft, original_hard) == requested

\* lines 77-82: the soft limit _memory_limit asks for
target_soft(requested, original_soft, original_hard) ==
  LET capped == IF is_infinite(original_soft) THEN requested
                ELSE Min(requested, original_soft)
  IN IF is_infinite(original_hard) THEN capped ELSE Min(capped, original_hard)

\* the engine's input payload and dependency outputs when the block is called
CallInput == [s |-> "str"]
CallUses == [n \in {"d1"} |-> [s |-> "str"]]

\* line 119: dict(context) is a new mapping with the keys of context bound to the
\* same objects
dict(context) == [k \in DOMAIN context |-> context[k]]

\* obj[k] = v on the object a name of the script is bound to
Store(call, obj, k, v) ==
  CASE obj = "input_payload" -> [call EXCEPT !.input_payload = SetKey(@, k, v)]
    [] obj = "dep_outputs" -> [call EXCEPT !.dep_outputs = SetKey(@, k, v)]
    [] OTHER -> call

\* line 126: what the script writes through its context
ScriptWrites(call) ==
  CASE call.script = "sets_key" -> [call EXCEPT !.context.input = "own"]
    [] call.script = "mutates_input" -> Store(call, call.context.input, "s", "num")
    [] call.script = "mutates_uses" -> Store(call, call.context.uses, "d1", EmptyObj)
    [] OTHER -> call

\* the calls of execute_python_block that are followed
Calls ==
  { [NoCall EXCEPT !.pc = "call", !.trusted = t, !.memory_limit_mb = mb, !.threads = n,
                   !.script = sc, !.getrlimit_ok = g, !.setrlimit_ok = w,
                   !.soft = l[1], !.hard = l[2], !.prior_soft = l[1], !.prior_hard = l[2],
                   !.input_payload = CallInput, !.dep_outputs = CallUses,
                   !.context = dict(EngineContext)] :
      t \in BOOLEAN, mb \in MemoryLimits, n \in ThreadCounts, sc \in BlockScripts,
      g \in BOOLEAN, w \in BOOLEAN, l \in ProcessLimits }

engine == <<files, options, frames, raising, outcome, stats, bound, done>>

PyInit ==
  /\ files = [p \in Paths |-> Unread]
  /\ options = NoOptions
  /\ frames = <<>>
  /\ raising = NoError
  /\ outcome = NoOutcome
  /\ stats = <<>>
  /\ bound = NoRender
  /\ done = NoDone
  /\ pb \in Calls
  /\ fn = NoApplication
  /\ rc = NoConfig

\* where the exit of the ExitStack goes first: the finally of _memory_limit if the
\* generator is suspended inside it, else the finally of _timeout
Unwind(guarded) == IF guarded THEN "restore" ELSE "timeout_exit"

\* _timeout up to its yield: the handler is installed and the alarm armed
EnterTimeout ==
  /\ pb.pc = "call"
  /\ pb' = [pb EXCEPT !.sigalrm = "handler", !.armed = TRUE,
                      !.pc = IF pb.trusted THEN "exec" ELSE "memory_limit"]
  /\ UNCHANGED <<engine, fn, rc>>

\* _memory_limit without the check of line 56
EnterMemoryLimit_anythreads ==
  /\ pb.pc = "memory_limit"
  /\ pb' = [pb EXCEPT !.pc = IF pb.memory_limit_mb <= 0 THEN "exec" ELSE "getrlimit"]
  /\ UNCHANGED <<engine, fn, rc>>

\* _memory_limit lines 53-60: no limit without a positive budget or with other threads
EnterMemoryLimit ==
  /\ pb.pc = "memory_limit"
  /\ pb' = [pb EXCEPT !.pc = IF pb.memory_limit_mb <= 0 \/ pb.threads > 1
                             THEN "exec" ELSE "getrlimit"]
  /\ UNCHANGED <<engine, fn, rc>>

\* lines 63-68: the current limits are read; no limit if that fails
GetRlimit ==
  /\ pb.pc = "getrlimit"
  /\ pb' = IF pb.getrlimit_ok
           THEN [pb EXCEPT !.original_soft = pb.soft, !.original_hard = pb.hard,
                           !.pc = "target"]
           ELSE [pb EXCEPT !.pc = "exec"]
  /\ UNCHANGED <<engine, fn, rc>>

\* lines 69-86: no limit if the budget would not lower the soft limit
TargetSoft ==
  /\ pb.pc = "target"
  /\ LET target == target_soft(bytes_limit(pb.memory_limit_mb), pb.original_soft,
                               pb.original_hard)
     IN pb' = IF target = pb.original_soft
              THEN [pb EXCEPT !.pc = "exec"]
              ELSE [pb EXCEPT !.target_soft = target, !.pc = "setrlimit"]
  /\ UNCHANGED <<engine, fn, rc>>

\* setrlimit lowers the soft limit; its refusal leaves _memory_limit as an error
LowerLimit_raises ==
  /\ pb.pc = "setrlimit"
  /\ pb' = IF pb.setrlimit_ok
           THEN [pb EXCEPT !.soft = pb.target_soft, !.lowered = TRUE, !.pc = "lowered"]
           ELSE [pb EXCEPT !.exc = "Exception", !.pc = Unwind(pb.guarded)]
  /\ UNCHANGED <<engine, fn, rc>>

\* lines 88-93: setrlimit lowers the soft limit; no limit if the system refuses
LowerLimit ==
  /\ pb.pc = "setrlimit"
  /\ pb' = IF pb.setrlimit_ok
           THEN [pb EXCEPT !.soft = pb.target_soft, !.lowered = TRUE, !.pc = "lowered"]
           ELSE [pb EXCEPT !.pc = "exec"]
  /\ UNCHANGED <<engine, fn, rc>>

\* lines 95-96: the generator yields inside try/finally
Guard ==
  /\ pb.pc = "lowered"
  /\ pb' = [pb EXCEPT !.guarded = TRUE, !.pc = "exec"]
  /\ UNCHANGED <<engine, fn, rc>>

\* line 126: exec(code, global_ns, local_ns) comes back or raises
ExecCode ==
  /\ pb.pc = "exec"
  /\ pb.script \notin Endless
  /\ pb' = [ScriptWrites(pb) EXCEPT !.result = ScriptEnds(pb.script, pb.trusted).result,
                                    !.exc = ScriptEnds(pb.script, pb.trusted).exc,
                                    !.pc = Unwind(pb.guarded)]
  /\ UNCHANGED <<engine, fn, rc>>

\* lines 97-102: the finally of _memory_limit puts the original limits back
RestoreLimit ==
  /\ pb.pc = "restore"
  /\ pb' = [pb EXCEPT !.soft = pb.original_soft, !.hard = pb.original_hard,
                      !.guarded = FALSE, !.pc = "timeout_exit"]
  /\ UNCHANGED <<engine, fn, rc>>

\* lines 46-48: the finally of _timeout disarms the alarm and puts the handler back
ExitTimeout ==
  /\ pb.pc = "timeout_exit"
  /\ pb' = [pb EXCEPT !.armed = FALSE, !.sigalrm = "original", !.pc = "after"]
  /\ UNCHANGED <<engine, fn, rc>>

\* lines 127-151: an Exception, or a result that is no mapping, is RLLM_009; an
\* exception that is no Exception passes the except clause of line 127
Finish ==
  /\ pb.pc = "after"
  /\ pb' = [pb EXCEPT !.outcome = CASE pb.exc \in {"Exception", "TimeoutError"} -> "RLLM_009"
                                    [] pb.exc = "SystemExit" -> "SystemExit"
                                    [] pb.result = "non_mapping" -> "RLLM_009"
                                    [] OTHER -> "returned",
                      !.pc = "done"]
  /\ UNCHANGED <<engine, fn, rc>>

\* handler (lines 39-40): SIGALRM arrives and TimeoutError is raised where the main
\* thread is.  Inside a try whose except clause is "except Exception" the error is
\* swallowed and the clause's body runs; elsewhere it unwinds the ExitStack.
handler ==
  /\ pb.armed
  /\ pb.pc \in {"memory_limit", "getrlimit", "target", "setrlimit", "lowered", "exec",
                "restore", "timeout_exit"}
  /\ pb' = CASE pb.pc = "exec" /\ pb.script = "catches" ->
                  \* raised inside the try statement of the script, which goes on
                  [pb EXCEPT !.armed = FALSE, !.fired = TRUE]
             [] pb.pc \in {"memory_limit", "target"}
                  \/ (pb.pc = "exec" /\ pb.script # "catches") ->
                  [pb EXCEPT !.armed = FALSE, !.fired = TRUE, !.exc = "TimeoutError",
                             !.pc = Unwind(pb.guarded)]
             \* lines 63-68 and 88-93: except Exception, then yield without try/finally
             [] pb.pc \in {"getrlimit", "setrlimit", "lowered"} ->
                  [pb EXCEPT !.armed = FALSE, !.fired = TRUE, !.pc = "exec"]
             \* lines 98-102: except Exception: pass, before setrlimit was called
             [] pb.pc = "restore" ->
                  [pb EXCEPT !.armed = FALSE, !.fired = TRUE, !.guarded = FALSE,
                             !.pc = "timeout_exit"]
             \* lines 46-48: raised in the finally of _timeout, before signal.alarm(0)
             [] OTHER ->
                  [pb EXCEPT !.armed = FALSE, !.fired = TRUE, !.exc = "TimeoutError",
                             !.pc = "after"]
  /\ UNCHANGED <<engine, fn, rc>>

PyNext ==
  \/ EnterTimeout
  \/ EnterMemoryLimit
  \/ GetRlimit
  \/ TargetSoft
  \/ LowerLimit
  \/ Guard
  \/ ExecCode
  \/ RestoreLimit
  \/ ExitTimeout
  \/ Finish
  \/ handler

PySpec == PyInit /\ [][PyNext]_vars

\* the interpreter keeps running and the system delivers a pending alarm
PyLive == PySpec /\ WF_vars(PyNext)

(***************************************************************************)
(* The functions of runllm/validation.py applied to a text.                *)
(***************************************************************************)
Lexemes == {"{", "}", "[", "]", ",", " ", "junk", "1"} \cup PairToks

\* pieces of text: one lexeme, or one object
Fragments ==
  {<<l>> : l \in Lexemes}
    \cup { <<"{", "}">>, <<"{", "s:str", "}">>, <<"{", "s:num", "}">>,
           <<"{", "s:str", ",", "p:str", "}">>, <<"{", "p:str", ",", "s:str", "}">> }

\* the texts the functions are applied to: up to MaxFragments pieces in a row
MaxFragments == 3
RECURSIVE TextsOf(_)
TextsOf(n) ==
  IF n = 0 THEN {<<>>}
  ELSE TextsOf(n - 1) \cup {t \o f : t \in TextsOf(n - 1), f \in Fragments}

FnInit ==
  /\ files = [p \in Paths |-> Unread]
  /\ options = NoOptions
  /\ frames = <<>>
  /\ raising = NoError
  /\ outcome = NoOutcome
  /\ stats = <<>>
  /\ bound = NoRender
  /\ done = NoDone
  /\ pb = NoCall
  /\ rc = NoConfig
  /\ fn \in {[NoApplication EXCEPT !.op = "text", !.text = t] : t \in TextsOf(MaxFragments)}

\* candidates = extract_json_object_candidates(text)
ExtractCandidates ==
  /\ fn.op = "text"
  /\ fn' = [fn EXCEPT !.op = "extract_json_object_candidates",
                      !.candidates = extract_json_object_candidates(fn.text)]
  /\ UNCHANGED <<engine, pb, rc>>

\* output schemas of a program: the engine's, and one that admits other properties
OpenSchema ==
  [name |-> "output", required |-> {"s"}, props |-> [s |-> "str"], additional |-> TRUE]
OutputSchemas == {OutputSchema, OpenSchema}

\* the body of the try statement of one attempt (_run_single lines 383-424) for the
\* message text the model answered: extraction and validation, then the post block
TryAttempt ==
  /\ fn.op = "text"
  /\ \E schema \in OutputSchemas, script \in Scripts \cup {"absent"} :
       \E ex \in {ExtractOutput(fn.text, schema)} :
         LET tried == [fn EXCEPT !.op = "attempt",
                                 !.candidates = extract_json_object_candidates(fn.text),
                                 !.schema = IF schema.additional THEN "open" ELSE "closed",
                                 !.post = script]
             post == execute_python_block(script)
         IN fn' = IF ex.err # NoError
                    THEN [tried EXCEPT !.err = ex.err.error_code, !.post = "absent"]
                  ELSE IF script = "absent"
                    THEN [tried EXCEPT !.out = ex.obj, !.returned = TRUE, !.value = ex.obj]
                  ELSE IF post.err # NoError
                    THEN [tried EXCEPT !.out = ex.obj, !.err = post.err.error_code]
                  ELSE [tried EXCEPT !.out = ex.obj, !.returned = TRUE,
                                     !.value = Update(ex.obj, post.result)]
  /\ UNCHANGED <<engine, pb, rc>>

FnNext ==
  \/ ExtractCandidates
  \/ TryAttempt

FnSpec == FnInit /\ [][FnNext]_vars

(***************************************************************************)
(* load_runtime_config (runllm/config.py) in a process that also writes    *)
(* its environment and whose configuration files change.  rc.by is the     *)
(* writer of the current value of each variable: the process, or a load.   *)
(***************************************************************************)
\* what the three files can hold: config.yaml gives OLLAMA_API_BASE only
\* (_parse_config_yaml lines 98-102), the user .env either variable, and the .env of
\* the working directory is followed for OPENAI_API_KEY
YamlEnvs == {m \in EnvMaps : m["OPENAI_API_KEY"] = "unset"}
UserEnvs == EnvMaps
CwdEnvs == {m \in EnvMaps : m["OLLAMA_API_BASE"] = "unset"}

\* dict.update on mappings of variables
EnvUpdate(base, other) == [k \in EnvKeys |-> IF other[k] # "unset" THEN other[k] ELSE base[k]]

\* merged_env with the user .env applied last
merged_env_userlast(config) ==
  EnvUpdate(EnvUpdate(config.yaml_env, config.cwd_env), config.user_env)

\* lines 129-132: yaml, then the user .env, then the .env of the working directory
merged_env(config) == EnvUpdate(EnvUpdate(config.yaml_env, config.user_env), config.cwd_env)

\* protected_existing without the variables changed after their injection
protected_existing_unknownonly(environ, autoloaded) ==
  {k \in EnvKeys : environ[k] # "unset" /\ autoloaded[k] = "unset"}

\* lines 134-141: the variables of the environment a load leaves alone
protected_existing(environ, autoloaded) ==
  {k \in EnvKeys : environ[k] # "unset"
                     /\ (autoloaded[k] = "unset" \/ autoloaded[k] # environ[k])}

\* lines 115-117 and 143-145: the injected variables that still hold the injected value
StillInjected(environ, autoloaded) ==
  {k \in EnvKeys : autoloaded[k] # "unset" /\ environ[k] = autoloaded[k]}

\* _cache_key: the working directory and XDG_CONFIG_HOME are fixed; the signatures of
\* the files are part of the key of an autoload only, which line 110 never compares
_cache_key(autoload) == IF autoload THEN "autoload" ELSE "noautoload"

CfgInit ==
  /\ files = [p \in Paths |-> Unread]
  /\ options = NoOptions
  /\ frames = <<>>
  /\ raising = NoError
  /\ outcome = NoOutcome
  /\ stats = <<>>
  /\ bound = NoRender
  /\ done = NoDone
  /\ pb = NoCall
  /\ fn = NoApplication
  /\ \E e \in EnvMaps : rc = [NoConfig EXCEPT !.environ = e]

\* the process assigns os.environ[k] = v
SetEnv ==
  /\ \E k \in EnvKeys, v \in EnvValues :
       rc' = [rc EXCEPT !.environ[k] = v, !.by[k] = "process", !.op = "set"]
  /\ UNCHANGED <<engine, pb, fn>>

\* the process deletes os.environ[k]
DelEnv ==
  /\ \E k \in EnvKeys :
       /\ rc.environ[k] # "unset"
       /\ rc' = [rc EXCEPT !.environ[k] = "unset", !.by[k] = "process", !.op = "del"]
  /\ UNCHANGED <<engine, pb, fn>>

\* config.yaml or one of the .env files is written
WriteFiles ==
  /\ \E y \in YamlEnvs, u \in UserEnvs, c \in CwdEnvs :
       /\ <<y, u, c>> # <<rc.yaml_env, rc.user_env, rc.cwd_env>>
       /\ rc' = [rc EXCEPT !.yaml_env = y, !.user_env = u, !.cwd_env = c, !.op = "files"]
  /\ UNCHANGED <<engine, pb, fn>>

\* load_runtime_config(autoload=autoload)
load_runtime_config ==
  /\ \E autoload \in BOOLEAN :
       LET cache_key == _cache_key(autoload)
           injected == StillInjected(rc.environ, rc._AUTOLOADED_ENV_VALUES)
           protected == protected_existing(rc.environ, rc._AUTOLOADED_ENV_VALUES)
           merged == merged_env(rc)
           injected_now == [k \in EnvKeys |-> IF k \in protected THEN "unset" ELSE merged[k]]
       IN rc' = IF ~autoload /\ rc._RUNTIME_CONFIG_KEY = cache_key
                  THEN [rc EXCEPT !.op = "load"]
                ELSE IF ~autoload
                  THEN [rc EXCEPT
                          !.environ = [k \in EnvKeys |->
                                         IF k \in injected THEN "unset" ELSE rc.environ[k]],
                          !.by = [k \in EnvKeys |->
                                    IF k \in injected THEN "load" ELSE rc.by[k]],
                          !._AUTOLOADED_ENV_VALUES = NoEnv,
                          !._RUNTIME_CONFIG_KEY = cache_key,
                          !.op = "load"]
                ELSE [rc EXCEPT
                        !.environ = [k \in EnvKeys |->
                                       IF k \in protected THEN rc.environ[k]
                                       ELSE merged[k]],
                        !.by = [k \in EnvKeys |->
                                  IF k \in protected
                                       \/ (k \notin injected /\ merged[k] = "unset")
                                    THEN rc.by[k] ELSE "load"],
                        !._AUTOLOADED_ENV_VALUES = injected_now,
                        !._RUNTIME_CONFIG_KEY = cache_key,
                        !.op = "load"]
  /\ UNCHANGED <<engine, pb, fn>>

CfgNext ==
  \/ SetEnv
  \/ DelEnv
  \/ WriteFiles
  \/ load_runtime_config

CfgSpec == CfgInit /\ [][CfgNext]_vars

(***************************************************************************)
(* Properties.                                                             *)
(***************************************************************************)
SchemaClass == {"RLLM_005", "RLLM_006", "RLLM_007"}

\* the positions of a stripped text where an object decodes
DecodablePositions(st) ==
  {i \in 1..Len(st) : st[i] = "{" /\ RawDecodeObject(st, i).ok}

\* the schema-compliant JSON objects a message text holds
CompliantPayloads(content) ==
  LET st == Strip(content) IN
  {RawDecodeObject(st, i).obj :
     i \in {j \in DecodablePositions(st) : SchemaValid(RawDecodeObject(st, j).obj, OutputSchema)}}

\* the last step ended a node invocation whose last model answer held compliant JSON
EndedOnCompliantAnswer ==
  done # NoDone /\ done.frame.calls >= 1 /\ CompliantPayloads(done.frame.content) # {}

\* C1 as claimed: after k non-compliant answers and a compliant answer on attempt k+1
\* the node has made exactly k+1 model invocations and returns the compliant payload
\* of attempt k+1.
C1_Original ==
  EndedOnCompliantAnswer =>
    /\ done.frame.calls = done.frame.fails + 1
    /\ done.returned
    /\ done.value \in CompliantPayloads(done.frame.content)

\* C1 (amended): after k non-compliant answers and a compliant answer on attempt k+1
\* the node has made exactly k+1 model invocations; without a post block it returns
\* the compliant payload of attempt k+1, with a post block it returns that payload
\* with the block's mapping merged on top, or fails with RLLM_009 when the block fails.
C1_RetryThenSuccess ==
  EndedOnCompliantAnswer =>
    /\ done.frame.calls = done.frame.fails + 1
    /\ done.frame.calls <= options.max_retries + 1
    /\ done.frame.out \in CompliantPayloads(done.frame.content)
    /\ IF done.frame.post = "absent"
         THEN done.returned /\ done.value = done.frame.out
       ELSE IF done.frame.post \in {"untouched", "map_p", "map_s_num"}
         THEN /\ done.returned
              /\ \A k \in DOMAIN done.value :
                   done.value[k] = IF done.frame.post = "map_p" /\ k = "p" THEN "str"
                                   ELSE IF done.frame.post = "map_s_num" /\ k = "s" THEN "num"
                                   ELSE done.frame.out[k]
         ELSE ~done.returned /\ done.error.error_code = "RLLM_009"

C1_Witness ==
  /\ done.returned /\ done.frame.post = "absent"
  /\ done.frame.fails = 2 /\ done.frame.calls = 3
  /\ done.value \in CompliantPayloads(done.frame.content)

\* the last step raised the retry-exhausted error out of the node that ran out of attempts
RaisedExhausted ==
  done.error.error_code = "RLLM_013" /\ done.frame.pc = "exhausted"

\* C2 as claimed: RLLM_013 is raised only after exactly max_retries+1 model
\* invocations and carries the output schema and the raw text of the last attempt.
C2_Original ==
  RaisedExhausted =>
    /\ done.frame.calls = options.max_retries + 1
    /\ done.error.expected_schema = "output"
    /\ done.error.received_payload = TextPayload(done.frame.content)

\* C2 (amended): RLLM_013 is raised only after exactly max_retries+1 model
\* invocations, all of them non-compliant, and carries the output schema and the
\* received_payload of the failure of the last attempt: the stripped text when no
\* JSON could be decoded from it, the text's value when it is JSON but no object,
\* and otherwise an object decoded from the text that violates the schema.
C2_ExhaustedCarriesLastFailure ==
  RaisedExhausted =>
    LET st == Strip(done.frame.content)
        p == done.error.received_payload
    IN /\ done.frame.calls = options.max_retries + 1
       /\ done.frame.fails = done.frame.calls
       /\ done.error.expected_schema = "output"
       /\ \/ p.form = "text" /\ p.text = st /\ DecodablePositions(st) = {} /\ ~JsonLoads(st).ok
          \/ p.form = "value" /\ p.text = st /\ JsonLoads(st).ok /\ ~JsonLoads(st).isObj
          \/ /\ p.form = "object" /\ ~SchemaValid(p.obj, OutputSchema)
             /\ \E i \in DecodablePositions(st) : RawDecodeObject(st, i).obj = p.obj

C2_Witness ==
  /\ RaisedExhausted
  /\ done.frame.calls = 3
  /\ done.frame.content = <<"junk", "{", "s:num", ",", "p:str", "}">>
  /\ done.error.received_payload = ObjPayload([s |-> "num", p |-> "str"])

\* C3 as claimed: every node invocation that ends has made at least 1 and at most
\* max_retries+1 model invocations, and exactly 1 without dependencies and with
\* max_retries = 0.
C3_Original ==
  done # NoDone =>
    /\ done.frame.calls >= 1
    /\ done.frame.calls <= options.max_retries + 1
    /\ (done.frame.uses = <<>> /\ options.max_retries = 0) => done.frame.calls = 1

\* C3 (amended): a node invocation that returns has made at least 1 and at most
\* max_retries+1 model invocations (exactly 1 when max_retries = 0); one that fails
\* has made at most max_retries+1 and none at all when it fails before its attempt loop.
C3_InvocationCount ==
  done # NoDone =>
    /\ done.frame.calls >= 0
    /\ done.frame.calls <= options.max_retries + 1
    /\ done.returned => done.frame.calls >= 1
    /\ (done.returned /\ options.max_retries = 0) => done.frame.calls = 1
    /\ (~done.returned /\ done.frame.pc \notin {"attempt", "exhausted"}) => done.frame.calls = 0
    /\ done.frame.pc = "exhausted" => done.frame.calls = options.max_retries + 1

C3_Witness ==
  /\ done.returned
  /\ options.max_retries = MaxRetries
  /\ done.frame.calls = MaxRetries + 1

\* C4: an invocation that is still active after model invocations has seen only
\* schema/parse-class failures (RLLM_005, RLLM_006, RLLM_007), one for each of its
\* model invocations; a failure of another class in the attempt loop (RLLM_009,
\* RLLM_011, RLLM_012) has ended the invocation in the same step.
C4_OnlySchemaClassRetries ==
  /\ \A i \in 1..Len(frames) :
       /\ frames[i].calls = frames[i].fails
       /\ frames[i].calls > 0 =>
            /\ frames[i].last_err.error_code \in SchemaClass
            /\ frames[i].pc \in {"attempt", "exhausted"}
       /\ frames[i].pc = "attempt" => frames[i].calls <= options.max_retries
  /\ (done.frame.pc = "attempt" /\ ~done.returned) =>
       /\ done.error.error_code \in {"RLLM_009", "RLLM_011", "RLLM_012"}
       /\ Len(frames) < done.depth

C4_Witness ==
  /\ done.error.error_code = "RLLM_009" /\ done.frame.pc = "attempt"
  /\ done.frame.fails = 1 /\ done.frame.calls = 2
  /\ options.max_retries = 2

\* C5 as claimed: every value run_program returns validates against output_schema.
C5_Original ==
  outcome.status = "returned" => SchemaValid(outcome.value, OutputSchema)

\* C5 (amended): the model output a returning invocation validated does validate
\* against output_schema, and the value run_program returns is that output when the
\* program has no post block or the block gave an empty mapping; a post block's
\* mapping is merged into the returned value without validation.
C5_ReturnedOutputValidated ==
  (done # NoDone /\ done.returned) =>
    /\ SchemaValid(done.frame.out, OutputSchema)
    /\ done.frame.post \in {"absent", "untouched"} =>
         done.value = done.frame.out /\ SchemaValid(done.value, OutputSchema)
    /\ \A k \in DOMAIN done.frame.out : k \in DOMAIN done.value
    /\ outcome.status = "returned" => outcome.value = done.value

C5_Witness ==
  /\ outcome.status = "returned"
  /\ done.frame.uses # <<>> /\ done.frame.pre_ran /\ done.frame.post = "untouched"
  /\ SchemaValid(outcome.value, OutputSchema)

\* the invocation f is about to resolve a dependency on itself or on a program of
\* its invocation chain
AtBackEdge(f) ==
  /\ f.pc = "uses" /\ f.dep <= Len(f.uses)
  /\ f.uses[f.dep] = f.path \/ InStack(f.uses[f.dep], f.stack)

\* C6 as claimed: a dependency on the program itself or on a program higher in the
\* invocation chain makes the run fail with RLLM_008, raised before that program is
\* entered again.
C6_Original ==
  [][(Running /\ AtBackEdge(Top)) =>
       (Len(frames') < Len(frames) /\ done'.error.error_code = "RLLM_008")]_vars

\* the paths of the active invocations, root first
ChainPaths == [i \in 1..Len(frames) |-> frames[i].path]

\* C7 as claimed: the cycle detail of RLLM_008 lists the invocation chain from the
\* root down to and including the declaring program, followed by the offending path.
C7_Original ==
  (done.error.error_code = "RLLM_008" /\ done.frame.pc = "uses") =>
    done.error.cycle = ChainPaths \o <<done.frame.path, done.frame.uses[done.frame.dep]>>

\* C8 as claimed: no program path appears twice among the active invocations, and
\* no stack passed down the recursion holds a duplicate.
C8_Original ==
  /\ \A i, j \in 1..Len(frames) : i # j => frames[i].path # frames[j].path
  /\ \A i \in 1..Len(frames) :
       \A m, n \in 1..Len(frames[i].stack) : m # n => frames[i].stack[m] # frames[i].stack[n]

\* C9: while the error of a failed dependency travels up, every step only removes the
\* calling invocation, which was waiting in _execute_uses and has run no pre block,
\* rendered no prompt and made no model invocation; the error stays the same, no
\* sibling is entered, and the caller of run_program receives that error.
C9_DependencyFailurePropagates ==
  [][raising # NoError =>
       /\ Top.pc = "call" /\ Top.calls = 0 /\ ~Top.rendered /\ ~Top.pre_ran
       /\ frames' = Front(frames)
       /\ stats' = stats
       /\ IF Len(frames) = 1
            THEN outcome'.status = "failed" /\ outcome'.error = raising
            ELSE raising' = raising /\ outcome' = outcome]_vars

C9_Witness ==
  /\ raising # NoError /\ raising.error_code = "RLLM_013"
  /\ Len(frames) = 1
  /\ Top.dep = 2 /\ Len(Top.uses) = 2 /\ DOMAIN Top.outputs = {"d1"}

\* C10: only the innermost invocation runs, every other active invocation waits in
\* _execute_uses for the dependency it called; while the dependency declared i-th is
\* being invoked, exactly the dependencies declared before it have returned, and after
\* the loop all of them have.
C10_SequentialDeclarationOrder ==
  \A i \in 1..Len(frames) :
    LET f == frames[i] IN
    /\ i < Len(frames) => f.pc = "call" /\ frames[i + 1].path = f.uses[f.dep]
    /\ (i = Len(frames) /\ f.pc = "call") => raising # NoError
    /\ f.pc \in {"uses", "call"} => f.dep <= Len(f.uses) + 1
    /\ f.pc = "call" => f.dep <= Len(f.uses)
    /\ f.pc \notin {"entry", "uses", "call"} => f.dep = Len(f.uses) + 1
    /\ DOMAIN f.outputs = {DepNames[k] : k \in 1..(f.dep - 1)}

C10_Witness ==
  /\ Len(frames) = 2
  /\ frames[1].pc = "call" /\ frames[1].dep = 2 /\ DOMAIN frames[1].outputs = {"d1"}
  /\ frames[2].pc = "attempt" /\ frames[2].calls = 1 /\ frames[2].uses # <<>>

\* the text a reference is to render as for the invocation f that is calling its
\* entry f.dep: the value under the name in f's input, or in the output of the entry
\* declared before f.dep that is bound under the name; the empty string otherwise
ExpectedText(f, ref) ==
  LET Str(kind) == IF kind = "str" THEN "abc" ELSE "1"
      earlier == {k \in 1..(f.dep - 1) : DepNames[k] = ref[2]}
  IN IF ref[1] = "input"
       THEN IF ref[2] \in DOMAIN f.input THEN Str(f.input[ref[2]]) ELSE ""
     ELSE IF earlier = {} THEN ""
     ELSE IF ref[3] \in DOMAIN f.outputs[ref[2]] THEN Str(f.outputs[ref[2]][ref[3]])
     ELSE ""

\* C11: when the child input of the i-th entry is built, its 'with' template is
\* rendered against the parent's input and exactly the outputs of the entries declared
\* before it, bound under their names (each output is bound when its dependency
\* returns); a reference to an entry declared later, or to the entry itself, renders
\* as the empty string.
C11_WithSeesEarlierOutputs ==
  /\ bound # NoRender =>
       /\ Len(frames) >= 2
       /\ LET parent == frames[Len(frames) - 1] IN
          /\ parent.pc = "call" /\ parent.dep = bound.dep
          /\ bound.data.input = parent.input
          /\ bound.data.uses = parent.outputs
          /\ DOMAIN bound.data.uses = {DepNames[k] : k \in 1..(bound.dep - 1)}
          /\ bound.text = ExpectedText(parent, bound.ref)
          /\ (bound.ref[1] = "uses" /\ \A k \in 1..(bound.dep - 1) : DepNames[k] # bound.ref[2])
               => bound.text = ""
  /\ (done.returned /\ done.depth >= 2) =>
       LET parent == frames[done.depth - 1] IN
       /\ parent.dep >= 2
       /\ parent.outputs[DepNames[parent.dep - 1]] = done.value

C11_Witness ==
  /\ bound.dep = 2 /\ bound.ref = <<"uses", "d1", "s">> /\ bound.text = "1"
  /\ Len(frames) = 2 /\ Len(frames[1].uses) = 2

\* every entry of the uses list of f has returned and is bound
AllDependenciesBound(f) == DOMAIN f.outputs = {DepNames[k] : k \in 1..Len(f.uses)}

\* C12 as claimed: the phases of a node invocation happen in a fixed order, and
\* every declared dependency has returned a schema-validated output before the
\* node's pre-script and before its first model invocation.
C12_Original ==
  \A i \in 1..Len(frames) :
    frames[i].pc \in {"pre", "render", "attempt", "exhausted"} =>
      /\ AllDependenciesBound(frames[i])
      /\ \A n \in DOMAIN frames[i].outputs : SchemaValid(frames[i].outputs[n], OutputSchema)

\* C12 (amended): within one node invocation the input is validated before any
\* dependency is resolved, every declared dependency has returned before the pre
\* block, the pre block runs at most once and before the prompt is rendered, the
\* prompt is rendered before the first model invocation, and the post block runs at
\* most once, in the step that ends the invocation, after an attempt gave a
\* schema-valid output; the model output of a returning dependency was validated,
\* the value it returns (merged with its post mapping) is not.
C12_PhaseOrder ==
  /\ \A i \in 1..Len(frames) :
       LET f == frames[i] IN
       /\ f.post = "absent"
       /\ f.pc = "entry" => f.dep = 1 /\ f.outputs = EmptyOutputs
       /\ f.pc # "entry" => SchemaValid(f.input, InputSchema)
       /\ f.pc \in {"entry", "uses", "call", "pre"} => ~f.pre_ran
       /\ f.pc \in {"entry", "uses", "call", "pre", "render"} => ~f.rendered /\ f.calls = 0
       /\ f.pc \in {"pre", "render", "attempt", "exhausted"} => AllDependenciesBound(f)
       /\ f.pc \in {"attempt", "exhausted"} => f.rendered
       /\ f.pc = "exhausted" => f.calls >= 1
  /\ done.frame.post # "absent" =>
       /\ done.frame.pc = "attempt" /\ done.frame.rendered /\ done.frame.calls >= 1
       /\ done.frame.dep = Len(done.frame.uses) + 1
       /\ SchemaValid(done.frame.out, OutputSchema)
  /\ (done.returned /\ done.depth >= 2) => SchemaValid(done.frame.out, OutputSchema)

C12_Witness ==
  /\ done.returned /\ done.depth = 1
  /\ done.frame.pre_ran /\ done.frame.post = "map_p" /\ done.frame.fails = 1
  /\ Len(done.frame.uses) = 2

\* the invocation on top has parsed its program and holds an input that is no object
\* with exactly the string s its input_schema asks for
EntersWithInvalidInput ==
  /\ Running /\ Top.pc = "entry"
  /\ files'[Top.path].exists
  /\ Top.input # [s |-> "str"]

\* the step ended the invocation on top with the input-schema error, before any
\* dependency, script or model invocation
FailsOnInputAtOnce ==
  /\ frames' = Front(frames)
  /\ ~done'.returned /\ done'.error.error_code = "RLLM_004"
  /\ done'.error.received_payload = ObjPayload(Top.input)
  /\ done'.frame.dep = 1 /\ done'.frame.calls = 0
  /\ ~done'.frame.pre_ran /\ done'.frame.post = "absent"

\* C13 as claimed: a node whose input does not validate against its input_schema
\* fails with RLLM_004 before any dependency, script or model invocation, regardless
\* of the retry budget.
C13_Original ==
  [][EntersWithInvalidInput => FailsOnInputAtOnce]_vars

\* C13 (amended): under run options that pass the checks of _run_single
\* (max_retries >= 0 and debug_prompt_wrap > 0), a node whose input does not validate
\* against its input_schema fails with RLLM_004 before any dependency, script or
\* model invocation, whatever the retry budget.
C13_InvalidInputFailsFirst ==
  [][(EntersWithInvalidInput /\ options.max_retries >= 0 /\ options.debug_prompt_wrap > 0)
       => FailsOnInputAtOnce]_vars

C13_Witness ==
  /\ done.error.error_code = "RLLM_004" /\ done.depth = 1
  /\ Len(done.frame.uses) = 2 /\ options.max_retries = MaxRetries

\* the estimated tokens of the serialized input of f plus the prompt of its first attempt
FirstAttemptEstimate(f) ==
  estimate_tokens(PayloadChars(f.input))
    + estimate_tokens(PromptChars(_build_attempt_prompt(f.recovery_prompt, 0)))

\* C14: a node whose estimate for the first attempt is strictly greater than
\* max_context_window fails with RLLM_012 in that step, with zero model invocations
\* and no attempt made whatever the retry budget; an estimate equal to the window or
\* below it lets the first model invocation happen.
C14_ContextExceededBeforeFirstCall ==
  [][(Running /\ Top.pc = "attempt" /\ Top.attempt = 0) =>
       IF FirstAttemptEstimate(Top) > Top.window
         THEN /\ frames' = Front(frames)
              /\ ~done'.returned /\ done'.error.error_code = "RLLM_012"
              /\ done'.frame.calls = 0 /\ done'.frame.fails = 0 /\ done'.frame.attempt = 0
         ELSE /\ done'.error.error_code # "RLLM_012"
              /\ done' # NoDone => done'.frame.calls = 1
              /\ done' = NoDone => Top'.calls = 1]_vars

C14_Witness ==
  /\ done.error.error_code = "RLLM_012" /\ done.frame.calls = 0
  /\ options.max_retries = MaxRetries /\ done.depth = 2

\* the row record_run inserts for a failed run of the program at path
FailedRun(path) ==
  [app_path |-> path, success |-> FALSE, output_schema_ok |-> FALSE, input_schema_ok |-> TRUE]

\* the invocation on top as the step leaves it: ended, or still on top
AfterStep == IF done' # NoDone THEN done'.frame ELSE Top'

\* the step ran the post block of the invocation on top, and the block failed
PostScriptFailed ==
  /\ Running /\ Top.pc = "attempt"
  /\ AfterStep.post # "absent"
  /\ execute_python_block(AfterStep.post).err # NoError

\* C15: the step in which the post-script fails, after an attempt gave schema-valid
\* output, ends the node with RLLM_009 and inserts one stats row with success = false
\* for it, the only row of the invocation (no step that leaves an invocation running
\* inserts a row); the node makes no further model invocation whatever budget remains.
C15_PostScriptFailureEndsNode ==
  [][/\ done' = NoDone => stats' = stats
     /\ PostScriptFailed =>
          /\ frames' = Front(frames)
          /\ ~done'.returned /\ done'.error.error_code = "RLLM_009"
          /\ done'.error = execute_python_block(done'.frame.post).err
          /\ SchemaValid(done'.frame.out, OutputSchema)
          /\ done'.frame.calls = Top.calls + 1
          /\ stats' = Append(stats, FailedRun(Top.path))]_vars

C15_Witness ==
  /\ done.error.error_code = "RLLM_009" /\ done.frame.post = "raises"
  /\ done.frame.calls = 1 /\ options.max_retries = MaxRetries
  /\ stats = <<FailedRun(done.frame.path)>>

\* the step ran the pre block of the invocation on top, and the block failed
PreScriptFailed ==
  /\ Running /\ Top.pc = "pre"
  /\ done' # NoDone

\* C16 as claimed: every script-execution failure, of the pre-script as well as of the
\* post-script, fails the node at once without retry and is recorded with the stats
\* collaborator as a failed run of that node.
C16_Original ==
  [][(PreScriptFailed \/ PostScriptFailed) =>
       /\ frames' = Front(frames)
       /\ ~done'.returned /\ done'.error.error_code = "RLLM_009"
       /\ stats' = Append(stats, FailedRun(Top.path))]_vars

\* C17: a node whose post-script returned the mapping M returns the validated model
\* output with M merged on top: the keys are those of the output and of M, every key
\* of M has M's value, every other key keeps the value of the validated output; the
\* merged object is returned as it is, valid against output_schema or not.
C17_PostMappingMergedOnTop ==
  (done.returned /\ done.frame.post # "absent") =>
    LET M == execute_python_block(done.frame.post).result IN
    /\ SchemaValid(done.frame.out, OutputSchema)
    /\ DOMAIN done.value = DOMAIN done.frame.out \cup DOMAIN M
    /\ \A k \in DOMAIN M : done.value[k] = M[k]
    /\ \A k \in DOMAIN done.frame.out \ DOMAIN M : done.value[k] = done.frame.out[k]
    /\ done.depth = 1 => outcome.status = "returned" /\ outcome.value = done.value
    /\ done.depth >= 2 => frames[done.depth - 1].outputs[DepNames[frames[done.depth - 1].dep - 1]] = done.value

C17_Witness ==
  /\ done.returned /\ done.frame.post = "map_s_num"
  /\ done.frame.out = [s |-> "str"] /\ done.value = [s |-> "num"]
  /\ ~SchemaValid(done.value, OutputSchema)
  /\ outcome.status = "returned"

\* C18 as claimed: every node invocation that ends, returning or failing, appends
\* exactly one record to the stats collaborator, keyed by the node's program path,
\* with success = true exactly when the node returned an output.
C18_Original ==
  [][IF done' = NoDone THEN stats' = stats
     ELSE /\ Len(stats') = Len(stats) + 1
          /\ stats'[Len(stats')].app_path = done'.frame.path
          /\ stats'[Len(stats')].success = done'.returned]_vars

\* C19 as claimed: one entry is recorded per model invocation attempt, so that a node
\* without dependencies that has made n attempts when it ends has written n records.
C19_Original ==
  (done # NoDone /\ done.depth = 1 /\ done.frame.uses = <<>>) =>
    Len(stats) = done.frame.calls

\* C19 (amended): an attempt that fails and is retried records nothing; the step in
\* which a node returns, or runs out of attempts, records one entry for the node
\* whatever the number of attempts it made, with success = true exactly when it
\* returned.
C19_OneRecordWhateverTheAttempts ==
  [][/\ (Running /\ Top.pc = "attempt" /\ done' = NoDone) =>
          /\ stats' = stats
          /\ Top'.calls = Top.calls + 1 /\ Top'.fails = Top.fails + 1
     /\ (raising = NoError /\ done' # NoDone
           /\ (done'.returned \/ done'.error.error_code = "RLLM_013")) =>
          /\ done'.frame.calls >= 1
          /\ stats' = Append(stats, [app_path |-> done'.frame.path,
                                     success |-> done'.returned,
                                     output_schema_ok |-> done'.returned,
                                     input_schema_ok |-> TRUE])]_vars

C19_Witness ==
  /\ done.returned /\ done.depth = 1 /\ done.frame.uses = <<>>
  /\ done.frame.fails = 1 /\ done.frame.calls = 2
  /\ Len(stats) = 1 /\ stats[1].success

\* C20: whenever execute_python_block has lowered the address-space limit, the limits
\* the process had before the call are back in force once the call has ended, on
\* every exit path and wherever the timeout's alarm was delivered.
C20_Original ==
  (pb.pc = "done" /\ pb.lowered) =>
    (pb.soft = pb.prior_soft /\ pb.hard = pb.prior_hard)

\* a limit is at most another one, RLIM_INFINITY being above every finite limit
LimitAtMost(a, b) == b = -1 \/ (a # -1 /\ a <= b)

\* the least of the requested ceiling and the finite ones of the two limits
LeastCeiling(mb, soft, hard) ==
  LET bounds == {mb * MiB} \cup ({soft, hard} \ {-1})
  IN CHOOSE c \in bounds : \A d \in bounds : c <= d

\* C21: the soft ceiling set for an untrusted script is the minimum of the requested
\* ceiling, the existing soft limit and the existing hard limit (an infinite limit is
\* no bound); the soft limit is never above its prior value, the hard limit never
\* changes, and setrlimit is not called when the ceiling equals the existing soft
\* limit.
C21_CeilingIsTheMinimum ==
  /\ pb.hard = pb.prior_hard
  /\ LimitAtMost(pb.soft, pb.prior_soft)
  /\ pb.lowered =>
       /\ ~pb.trusted
       /\ pb.target_soft = LeastCeiling(pb.memory_limit_mb, pb.prior_soft, pb.prior_hard)
       /\ pb.target_soft # pb.prior_soft
       /\ pb.pc \in {"lowered", "exec"} => pb.soft = pb.target_soft
  /\ ~pb.lowered => pb.soft = pb.prior_soft

C21_Witness ==
  /\ pb.pc = "exec" /\ pb.guarded /\ pb.lowered
  /\ pb.memory_limit_mb = 256 /\ pb.prior_soft = 512 * MiB /\ pb.prior_hard = 512 * MiB
  /\ pb.soft = 256 * MiB /\ pb.hard = 512 * MiB

\* the memory cap is not to be applied to this call
CapSkipped == pb.trusted \/ pb.threads > 1 \/ pb.memory_limit_mb <= 0

\* C22: in the trusted tier, with more than one active thread, or with a ceiling that
\* is not positive, the address-space limit is never modified (setrlimit is not even
\* reached), and unless the deadline expires the script is run and the call ends as
\* the script ended: its mapping (the empty one if it left none) returned, or
\* RLLM_009 if it raised an error or left a non-mapping.
C22_CapSkipped ==
  (pb.pc # "none" /\ CapSkipped) =>
    /\ pb.soft = pb.prior_soft /\ pb.hard = pb.prior_hard /\ ~pb.lowered
    /\ pb.pc \notin {"getrlimit", "target", "setrlimit", "lowered", "restore"}
    /\ (pb.pc = "done" /\ ~pb.fired) =>
         /\ pb.result # "unset" \/ pb.exc # "none"
         /\ pb.script \in {"untouched", "map_p", "map_s_num"} =>
              /\ pb.outcome = "returned"
              /\ pb.result = (IF pb.script = "untouched" THEN "empty" ELSE "mapping")
         /\ pb.script \in {"raises", "non_mapping"} => pb.outcome = "RLLM_009"

C22_Witness ==
  /\ pb.pc = "done" /\ ~pb.trusted /\ pb.threads = 2 /\ pb.memory_limit_mb = 256
  /\ pb.prior_soft = 512 * MiB /\ pb.soft = 512 * MiB
  /\ pb.script = "map_p" /\ pb.result = "mapping" /\ pb.outcome = "returned"

\* C23: a call of execute_python_block ends in one of two ways only, a returned
\* mapping or RLLM_009: it returns the script's mapping (the empty one when result
\* was left untouched) when the script ends normally, and raises RLLM_009 when the
\* script raises, times out, uses a name outside the allow-list in the untrusted
\* tier, or leaves a non-mapping; what it returns is never a non-mapping.
C23_Original ==
  pb.pc = "done" =>
    /\ pb.outcome \in {"returned", "RLLM_009"}
    /\ pb.outcome = "returned" => pb.result \in {"mapping", "empty"}
    /\ pb.exc = "TimeoutError" => pb.outcome = "RLLM_009"
    /\ ~pb.fired =>
         /\ pb.script \in {"map_p", "map_s_num"} =>
              pb.outcome = "returned" /\ pb.result = "mapping"
         /\ pb.script = "untouched" => pb.outcome = "returned" /\ pb.result = "empty"
         /\ pb.script \in {"raises", "exits", "non_mapping"} => pb.outcome = "RLLM_009"
         /\ pb.script = "imports" =>
              pb.outcome = (IF pb.trusted THEN "returned" ELSE "RLLM_009")

\* C24: every call of execute_python_block ends (a script still running at the
\* deadline is aborted by the alarm), and when it has ended the alarm is disarmed and
\* the handler that was installed for SIGALRM before the call is installed again.
C24_Original ==
  /\ <>(pb.pc = "done")
  /\ [](pb.pc = "done" => (~pb.armed /\ pb.sigalrm = "original"))

\* C25: whatever a script does to its context, assignments to its top-level keys and
\* in-place changes of context["input"] and context["uses"] included, the engine's
\* input payload and dependency outputs are after the script what they were before.
C25_Original ==
  pb.pc # "none" => (pb.input_payload = CallInput /\ pb.dep_outputs = CallUses)

\* C26: the prompt sent to the model on an attempt is the rendered prompt followed by
\* the output contract, followed by a recovery instruction exactly when the attempt
\* index is above 0: the recovery prompt of the program if it has one, the default
\* text otherwise.
C26_AttemptPrompt ==
  [][(Running /\ Top.pc = "attempt" /\ AfterStep.calls = Top.calls + 1) =>
       /\ SubSeq(AfterStep.prompt, 1, 2) = <<"rendered_prompt", "contract">>
       /\ Len(AfterStep.prompt) = (IF Top.attempt > 0 THEN 3 ELSE 2)
       /\ Top.attempt > 0 =>
            AfterStep.prompt[3] = (IF Top.recovery_prompt # "" THEN Top.recovery_prompt
                                   ELSE "default_recovery")]_vars

C26_Witness ==
  /\ done.returned /\ done.frame.calls = 2 /\ done.frame.attempt = 1
  /\ done.frame.prompt = <<"rendered_prompt", "contract", "custom_recovery">>

\* the first position of the stripped text st where the object obj decodes
FirstSeen(st, obj) ==
  CHOOSE i \in DecodablePositions(st) :
    /\ RawDecodeObject(st, i).obj = obj
    /\ \A j \in DecodablePositions(st) : RawDecodeObject(st, j).obj = obj => i <= j

\* C27: extract_json_object_candidates gives exactly the objects that decode at the
\* opening braces of the text, each once (no two with the same sorted-key
\* serialization), in the order of the positions where they are first seen, and the
\* empty list when no object decodes.
C27_CandidatesInFirstSeenOrder ==
  fn.op = "extract_json_object_candidates" =>
    LET st == Strip(fn.text)
        out == fn.candidates
    IN /\ {out[n] : n \in 1..Len(out)}
            = {RawDecodeObject(st, i).obj : i \in DecodablePositions(st)}
       /\ \A m, n \in 1..Len(out) :
            m < n => /\ SortedKeySerialization(out[m]) # SortedKeySerialization(out[n])
                     /\ FirstSeen(st, out[m]) < FirstSeen(st, out[n])
       /\ DecodablePositions(st) = {} => out = <<>>

C27_Witness ==
  /\ fn.op = "extract_json_object_candidates"
  /\ fn.text = <<"{", "s:str", ",", "p:str", "}", "{", "s:num", "}",
                 "{", "p:str", ",", "s:str", "}">>
  /\ fn.candidates = <<[s |-> "str", p |-> "str"], [s |-> "num"]>>

\* the schema an attempt validated against
SchemaOf(application) == IF application.schema = "open" THEN OpenSchema ELSE OutputSchema

\* the indices of the candidates of an attempt that validate against its schema
ValidCandidates(application) ==
  {n \in 1..Len(application.candidates) :
     SchemaValid(application.candidates[n], SchemaOf(application))}

Least(S) == CHOOSE n \in S : \A m \in S : n <= m

C29_Original ==
  (options.max_retries < 0 /\ outcome.status \notin {"idle", "running"}) =>
    (outcome.status = "failed" /\ outcome.error.error_code = "RLLM_002")

\* C29 (amended): a run with a negative max_retries ends in the first step of its
\* root node: with the error of the parser (RLLM_001) if the program file cannot be
\* loaded, and otherwise with RLLM_002 whatever the input, valid or not; no
\* dependency has been invoked, no model invocation made and no stats row written.
C29_NegativeRetriesFailFirst ==
  [][(Running /\ options.max_retries < 0) =>
       /\ Len(frames) = 1 /\ Top.pc = "entry" /\ stats = <<>>
       /\ frames' = <<>> /\ stats' = <<>>
       /\ done'.frame.calls = 0 /\ ~done'.frame.pre_ran
       /\ outcome'.status = "failed"
       /\ outcome'.error.error_code =
            (IF files'[Top.path].exists THEN "RLLM_002" ELSE "RLLM_001")]_vars

C29_Witness ==
  /\ options.max_retries < 0 /\ options.debug_prompt_wrap > 0
  /\ outcome.status = "failed" /\ outcome.error.error_code = "RLLM_002"
  /\ done.depth = 1 /\ done.frame.calls = 0 /\ done.frame.uses # <<>>

\* the step is a load that changes the variable k
LoadChanges(k) == rc'.op = "load" /\ rc'.environ[k] # rc.environ[k]

\* C30 as claimed: a load never overwrites and never deletes a variable whose current
\* value was written by the process.
C30_Original ==
  [][\A k \in EnvKeys :
       (rc.environ[k] # "unset" /\ rc.by[k] = "process") => ~LoadChanges(k)]_vars

\* C30 (amended): a load never overwrites and never deletes a variable whose current
\* value is not the value the last autoload injected for it; a variable that holds
\* the injected value, the process having written that same value again included, is
\* taken for injected.
C30_ProcessValuesKept ==
  [][\A k \in EnvKeys :
       (rc.environ[k] # "unset" /\ rc.environ[k] # rc._AUTOLOADED_ENV_VALUES[k])
          => ~LoadChanges(k)]_vars

C30_Witness ==
  /\ rc.op = "load" /\ rc._RUNTIME_CONFIG_KEY = "autoload"
  /\ rc.by["OPENAI_API_KEY"] = "process" /\ rc.environ["OPENAI_API_KEY"] = "b"
  /\ rc.cwd_env["OPENAI_API_KEY"] = "a"
  /\ rc.by["OLLAMA_API_BASE"] = "load" /\ rc.environ["OLLAMA_API_BASE"] = "a"

\* the value the current files give a variable: the .env of the working directory
\* over the user .env over config.yaml
FileValue(config, k) ==
  IF config.cwd_env[k] # "unset" THEN config.cwd_env[k]
  ELSE IF config.user_env[k] # "unset" THEN config.user_env[k]
  ELSE config.yaml_env[k]

\* C31: right after load_runtime_config(autoload=False) no variable holds a value a
\* load wrote, and right after load_runtime_config(autoload=True) every variable
\* whose value the process did not write (one it has deleted included) has the value
\* the current files give, and is unset if they give none.
C31_NoStaleInjectedValue ==
  rc.op = "load" =>
    /\ rc._RUNTIME_CONFIG_KEY = "noautoload" =>
         /\ \A k \in EnvKeys : rc.environ[k] # "unset" => rc.by[k] = "process"
         /\ rc._AUTOLOADED_ENV_VALUES = NoEnv
    /\ rc._RUNTIME_CONFIG_KEY = "autoload" =>
         \A k \in EnvKeys :
           (rc.by[k] = "load" \/ rc.environ[k] = "unset") =>
              rc.environ[k] = FileValue(rc, k)

C31_Witness ==
  /\ rc.op = "load" /\ rc._RUNTIME_CONFIG_KEY = "autoload"
  /\ rc.cwd_env["OPENAI_API_KEY"] = "a" /\ rc.user_env["OPENAI_API_KEY"] = "b"
  /\ rc.by["OPENAI_API_KEY"] = "load" /\ rc.environ["OPENAI_API_KEY"] = "a"
  /\ rc.yaml_env["OLLAMA_API_BASE"] = "a" /\ rc.user_env["OLLAMA_API_BASE"] = "b"
  /\ rc.by["OLLAMA_API_BASE"] = "load" /\ rc.environ["OLLAMA_API_BASE"] = "b"

\* the number of ways to go from one program to another along uses entries of the
\* files, in at most fuel steps
RECURSIVE PathCount(_, _, _)
PathCount(from, to, fuel) ==
  LET uses == files[from].uses
      Along[i \in 0..Len(uses)] ==
        IF i = 0 THEN 0 ELSE Along[i - 1] + PathCount(uses[i], to, fuel - 1)
  IN IF from = to THEN 1
     ELSE IF fuel = 0 \/ ~files[from].exists THEN 0
     ELSE Along[Len(uses)]

\* the stats rows written for a program
RowsOf(path) == {i \in 1..Len(stats) : stats[i].app_path = path}

\* C32: when a run has returned (every invocation of it succeeded, over an acyclic
\* uses graph), each program has been invoked once for every path of uses entries
\* leading from the root to it, each invocation having made model invocations of its
\* own and written its own stats row.
C32_OneInvocationPerPath ==
  /\ outcome.status = "returned" =>
       \A p \in Paths :
         Cardinality(RowsOf(p)) = PathCount(CHOOSE r \in RootPaths : TRUE, p, Cardinality(Paths))
  /\ done.returned => done.frame.calls >= 1

C32_Witness ==
  /\ outcome.status = "returned"
  /\ files["A"].uses = <<"B", "C">> /\ files["B"].uses = <<"C">> /\ files["C"].uses = <<>>
  /\ Cardinality(RowsOf("C")) = 2 /\ Cardinality(RowsOf("B")) = 1

\* the estimate _validate_context makes for the attempt the invocation f is about to make
AttemptEstimate(f) ==
  estimate_context_tokens(f.input, _build_attempt_prompt(f.recovery_prompt, f.attempt))

\* C33 as stated: an invocation that fails with RLLM_012 has made no model invocation
\* (no attempt after the first one fails the context check).
C33_Original ==
  [][(Running /\ Top.pc = "attempt" /\ done'.error.error_code = "RLLM_012") =>
       done'.frame.calls = 0]_vars

\* C33: the context check is made for every attempt on that attempt's own prompt, which
\* is never shorter than the first one: an attempt whose estimate is strictly greater
\* than max_context_window ends the invocation with RLLM_012 without a model invocation
\* of its own, after one model invocation for each earlier attempt; any other attempt
\* does not fail with RLLM_012.
C33_ContextCheckedPerAttempt ==
  [][(Running /\ Top.pc = "attempt") =>
       /\ AttemptEstimate(Top) >= FirstAttemptEstimate(Top)
       /\ Top.calls = Top.attempt
       /\ IF AttemptEstimate(Top) > Top.window
            THEN /\ frames' = Front(frames)
                 /\ ~done'.returned /\ done'.error.error_code = "RLLM_012"
                 /\ done'.frame.calls = Top.attempt
            ELSE /\ done'.error.error_code # "RLLM_012"
                 /\ AfterStep.calls = Top.attempt + 1]_vars

C33_Witness ==
  /\ done.error.error_code = "RLLM_012" /\ ~done.returned
  /\ done.frame.attempt = 1 /\ done.frame.calls = 1

\* the program paths of the uses graph: the root and every path a parsed file names
GraphPaths ==
  RootPaths \cup
    UNION {{files[p].uses[i] : i \in 1..Len(files[p].uses)} : p \in {q \in Paths : files[q].exists}}

\* the deepest chain of nested invocations the graph allows
MaxDepth == Cardinality(Paths) + 1

\* the steps one invocation has left once its dependencies are done: the end of
\* _execute_uses, the pre block, the rendering, the attempts, the end of the loop and
\* the passing on of a dependency's error
TailSteps == MaxRetries + 6

\* a bound on the steps of one invocation at the given depth, its dependencies included
RECURSIVE Work(_)
Work(depth) ==
  IF depth > MaxDepth THEN 0
  ELSE 1 + MaxUses * (1 + Work(depth + 1)) + TailSteps

\* a bound on the steps the invocation f at the given depth has left, the dependencies
\* it has yet to call included
Remaining(f, depth) ==
  CASE f.pc = "entry" -> Work(depth)
    [] f.pc = "uses" -> (Len(f.uses) + 1 - f.dep) * (1 + Work(depth + 1)) + TailSteps
    [] f.pc = "call" -> (Len(f.uses) - f.dep) * (1 + Work(depth + 1)) + TailSteps
    [] f.pc = "pre" -> TailSteps - 1
    [] f.pc = "render" -> TailSteps - 2
    [] f.pc = "attempt" -> (MaxRetries + 1 - f.attempt) + 2
    [] f.pc = "exhausted" -> 2

\* a bound on the steps the run has left
Rank ==
  LET Sum[i \in 0..Len(frames)] ==
        IF i = 0 THEN 0 ELSE Sum[i - 1] + Remaining(frames[i], i)
  IN (IF outcome.status = "idle" THEN 1 + Work(1) ELSE 0) + Sum[Len(frames)]

\* C34: every run of run_program ends, with an output or with an error, whatever the
\* uses graph (cycles included) and the retry budget: as long as the run has not ended
\* a step is possible, every step lowers a natural number that bounds the steps left,
\* the chain of nested invocations is never longer than the number of program paths of
\* the graph plus one, and no invocation makes more than max_retries + 1 attempts.
C34_RunTerminates ==
  /\ [][Rank' < Rank]_vars
  /\ [](Rank >= 0)
  /\ [](outcome.status \notin {"returned", "failed"} => ENABLED Next)
  /\ [](outcome.status \in {"returned", "failed"} => (frames = <<>> /\ ~ENABLED Next))
  /\ [](Len(frames) <= Cardinality(GraphPaths) + 1)
  /\ [](\A i \in 1..Len(frames) :
          /\ frames[i].calls <= options.max_retries + 1
          /\ frames[i].pc = "attempt" => frames[i].attempt < options.max_retries + 1)

C34_Witness ==
  /\ outcome.status = "failed" /\ outcome.error.error_code = "RLLM_008"
  /\ files["A"].uses = <<"B">> /\ files["B"].uses = <<"C", "B">> /\ files["C"].exists
  /\ Len(stats) = 2 /\ options.max_retries = MaxRetries

\* C35: every row of the stats store has input_schema_ok = true and output_schema_ok
\* equal to success; a step that writes writes one row, for the invocation it ends, so
\* that an invocation has at most one row; an invocation whose model output validated
\* and whose post-script failed gets a row with output_schema_ok = false.
C35_RecordedFlags ==
  /\ [](\A i \in 1..Len(stats) :
          stats[i].input_schema_ok /\ stats[i].output_schema_ok = stats[i].success)
  /\ [][/\ stats' # stats =>
             /\ Len(stats') = Len(stats) + 1 /\ SubSeq(stats', 1, Len(stats)) = stats
             /\ Running /\ Len(frames') = Len(frames) - 1 /\ done' # NoDone
             /\ stats'[Len(stats')].app_path = Top.path
             /\ stats'[Len(stats')].success = done'.returned
        /\ (PostScriptFailed /\ SchemaValid(AfterStep.out, OutputSchema)) =>
             /\ Len(stats') = Len(stats) + 1
             /\ ~stats'[Len(stats')].output_schema_ok
             /\ stats'[Len(stats')].app_path = Top.path]_vars

C35_Witness ==
  /\ done.error.error_code = "RLLM_009" /\ done.frame.post # "absent"
  /\ done.frame.calls = 2 /\ SchemaValid(done.frame.out, OutputSchema)
  /\ Len(stats) = 2 /\ stats[1].success /\ stats[1].output_schema_ok
  /\ ~stats[2].success /\ ~stats[2].output_schema_ok /\ stats[2].input_schema_ok

\* C36: the mapping a pre block returns reaches the context the prompt is rendered
\* against, where its keys replace 'input' and 'uses', and nothing else: the pre block
\* runs after every dependency has been called, the step leaves the input payload, the
\* dependency outputs and every other invocation as they were, the rendering is the
\* last reader of the mapping, and the attempts work on the original input payload.
C36_PreMappingStaysInRenderContext ==
  [][Running =>
       /\ Top.pc \in {"entry", "uses"} => (Top.extra = EmptyObj /\ ~Top.pre_ran)
       /\ (Top.pc = "pre" /\ done' = NoDone) =>
            /\ Top.dep = Len(Top.uses) + 1
            /\ Top' = [Top EXCEPT !.pc = "render", !.pre_ran = Top'.pre_ran,
                                  !.extra = Top'.extra]
            /\ Front(frames') = Front(frames)
            /\ \A k \in DOMAIN RenderContext(Top') :
                 RenderContext(Top')[k] =
                   IF k \in DOMAIN Top'.extra THEN Top'.extra[k]
                   ELSE IF k = "input" THEN Top.input ELSE Top.outputs
       /\ (Top.pc = "render" /\ done' = NoDone) =>
            Top' = [Top EXCEPT !.pc = "attempt", !.rendered = TRUE, !.extra = EmptyObj,
                               !.window = Top'.window,
                               !.recovery_prompt = Top'.recovery_prompt]
       /\ Top.pc \in {"attempt", "exhausted"} =>
            /\ Top.extra = EmptyObj
            /\ done' = NoDone => (Top'.input = Top.input /\ Top'.outputs = Top.outputs)
            /\ (done' # NoDone /\ ~done'.returned
                  /\ done'.error.error_code = "RLLM_012") =>
                 estimate_context_tokens(Top.input,
                     _build_attempt_prompt(Top.recovery_prompt, Top.attempt)) > Top.window]_vars

C36_Witness ==
  /\ Running /\ Top.pc = "render" /\ Top.pre_ran
  /\ Top.extra = [input |-> [s |-> "num"]] /\ Top.input = [s |-> "str"]
  /\ Len(Top.uses) = 1 /\ DOMAIN Top.outputs = {"d1"}
  /\ RenderContext(Top).input # Top.input /\ RenderContext(Top).uses = Top.outputs

\* the cap is asked for, and reading the limits fails or the system refuses to lower
\* the soft limit
CapFailed ==
  /\ ~pb.trusted /\ pb.threads = 1 /\ pb.memory_limit_mb > 0
  /\ \/ ~pb.getrlimit_ok
     \/ /\ ~pb.setrlimit_ok
        /\ target_soft(bytes_limit(pb.memory_limit_mb), pb.prior_soft, pb.prior_hard)
             # pb.prior_soft

\* the statement _memory_limit has reached is the call that fails
FailedStep ==
  \/ pb.pc = "getrlimit" /\ ~pb.getrlimit_ok
  \/ pb.pc = "setrlimit" /\ ~pb.setrlimit_ok

\* C37: when getrlimit fails or setrlimit refuses to lower the limit, the limits stay
\* what they were and no restore is attempted; the script is entered once, right after
\* the failed step, and unless the deadline expires the call ends as the script ended:
\* its mapping returned, or RLLM_009 for an error or a non-mapping of the script, never
\* an error for the cap.
C37_FailedCapIsBestEffort ==
  /\ []((pb.pc # "none" /\ CapFailed) =>
          /\ pb.soft = pb.prior_soft /\ pb.hard = pb.prior_hard
          /\ ~pb.lowered /\ ~pb.guarded
          /\ pb.pc \notin {"lowered", "restore"}
          /\ (pb.pc = "done" /\ ~pb.fired) =>
               /\ pb.result = ScriptEnds(pb.script, FALSE).result
               /\ pb.exc = ScriptEnds(pb.script, FALSE).exc
               /\ pb.outcome = IF pb.exc # "none" \/ pb.result = "non_mapping"
                                 THEN "RLLM_009" ELSE "returned")
  /\ [][(CapFailed /\ ~pb'.fired) =>
          /\ FailedStep => (pb'.pc = "exec" /\ pb'.result = "unset" /\ pb'.exc = "none")
          /\ (pb'.pc = "exec" /\ pb.pc # "exec") => FailedStep
          /\ (pb.pc = "exec" /\ pb'.pc # "exec") => pb'.pc = "timeout_exit"
          /\ pb.pc \in {"timeout_exit", "after", "done"} =>
               (pb'.result = pb.result /\ pb'.exc = pb.exc)]_vars

C37_Witness ==
  /\ pb.pc = "done" /\ ~pb.fired /\ CapFailed /\ pb.getrlimit_ok /\ ~pb.setrlimit_ok
  /\ pb.memory_limit_mb = 256 /\ pb.prior_soft = 512 * MiB /\ pb.soft = 512 * MiB
  /\ pb.script = "map_p" /\ pb.result = "mapping" /\ pb.outcome = "returned"

====
